---- MODULE Spec2Model ----
(***************************************************************************)
(* Model of the WebcrawlerFull crawl engine (worker/src/tasks.py), its     *)
(* two-tier storage (worker/src/db/storage.py) and the read path of the    *)
(* API server (server/src/main.py, server/src/db/storage.py).              *)
(*                                                                         *)
(* A URL string is modelled by its parts:                                  *)
(*   "https://" host "/" sec ["/" num] ["/"] ["?" query] ["#" frag]        *)
(* host = "" stands for a relative href (no scheme, no host); num = 0      *)
(* stands for "no numeric path segment"; query is the sequence of the      *)
(* names of the query parameters.                                          *)
(***************************************************************************)
EXTENDS Integers, Sequences, FiniteSets, TLC

VARIABLES
    web,                 \* which served site the fetches see
    rev,                 \* iteration order of Python sets in this run
    domains,             \* crawl_task argument
    max_depth,           \* crawl_task argument
    tpc,                 \* position of crawl_task
    di,                  \* index of the seed being processed (1-based)
    all_results,         \* crawl_task.all_results
    task_result,         \* value returned by crawl_task
    pc,                  \* position of crawl_single_domain_async
    visited_urls,
    urls_to_visit,
    next_depth_urls,
    domain_product_urls,
    url_first_found_by,
    parser_stats,
    current_depth,
    bi,                  \* loop variable i of the batch loop
    batch,
    results,             \* results of asyncio.gather, "pending" while running
    processed_count,
    total_count,
    redis,               \* fast store: key -> set of members
    mongo,               \* durable store: _id -> document
    calls,               \* history: the process_url calls of the running pipeline
    fetch_fails,         \* history: number of fetches that returned nothing
    seed_got,            \* history: the fetch of the pipeline's seed returned the page
    save_log,            \* history: arguments of the Storage.save calls
    stores_before,       \* history: both stores before the last save
    response,            \* last answer of GET /urls/{task_id}/{domain}
    held,                \* history: what a fast-store key held when it expired
    faults_left,         \* store faults that may still happen in this run
    celery,              \* result backend: task id -> state, last progress meta
    dispatched,          \* broker: the crawl tasks dispatched by POST /crawl/
    revoke_log,          \* the task.revoke calls issued by DELETE /task/{id}
    api_response,        \* last answer of POST /crawl/ or DELETE /task/{id}
    cancel,              \* history: the last cancellation that met a running pipeline
    fault_log,           \* history: the store faults of the run
    frontiers,           \* history: urls_to_visit at the start of each depth
    domain_statuses,     \* crawl_task.domain_statuses, published in every PROGRESS meta
    progress_log,        \* history: the metas the running pipeline gave to task.update_state
    unit                 \* a call of a function run on its own: arguments, position, result

taskVars == <<domains, max_depth, tpc, di, all_results, task_result>>
pipeVars == <<pc, visited_urls, urls_to_visit, next_depth_urls,
              domain_product_urls, url_first_found_by, parser_stats,
              current_depth, bi, batch, results, processed_count, total_count>>
storeVars == <<redis, mongo>>
histVars == <<calls, fetch_fails, seed_got, save_log, stores_before>>
apiVars == <<dispatched, revoke_log, api_response>>
auxVars == <<held, faults_left, celery, apiVars, cancel, fault_log, frontiers>>
progVars == <<domain_statuses, progress_log>>
vars == <<web, rev, taskVars, pipeVars, storeVars, histVars, response, auxVars, unit,
          progVars>>

----------------------------------------------------------------------------
(* Bounds of the model *)

MaxDepth == 3          \* largest max_depth argument tried
MaxFetchFail == 2      \* fetches that may return nothing in one run
MaxSaves == 3          \* Storage.save calls in the storage-only runs
MaxRevokes == 2        \* task.revoke calls issued in the API runs
MaxStoreFail == 1      \* store faults in one run of the engine
MaxParams == 2         \* query parameters of a URL given to normalize_url
MaxOver == 2           \* a next-depth list is at most this much off the frontier limit

----------------------------------------------------------------------------
(* URL strings *)

Url(h, s, n, sl, q, f) ==
    [host |-> h, sec |-> s, num |-> n, slash |-> sl, query |-> q, frag |-> f]

Anchor(t, u) == [text |-> t, href |-> u]

Rel(s, n) == Url("", s, n, FALSE, <<>>, "")

Range(s) == {s[i] : i \in DOMAIN s}

NoDup(s) == \A i, j \in DOMAIN s : s[i] = s[j] => i = j

SecIdx(s) ==
    CASE s = "" -> 0
      [] s = "about" -> 1
      [] s = "about.html" -> 2
      [] s = "list" -> 3
      [] s = "p" -> 4
      [] s = "product" -> 5
      [] OTHER -> 6

HostIdx(h) ==
    CASE h = "" -> 0
      [] h = "Example.com" -> 1
      [] h = "example.com" -> 2
      [] OTHER -> 3

\* position of a string in the iteration order of a Python set
UrlKey(u) ==
    ((((HostIdx(u.host) * 8 + SecIdx(u.sec)) * 1000 + u.num) * 2
        + (IF u.slash THEN 1 ELSE 0)) * 4 + Len(u.query)) * 2
        + (IF u.frag = "" THEN 0 ELSE 1)

RECURSIVE SetToSeq(_, _)
\* list(some_set): the members in the set's iteration order
SetToSeq(S, r) ==
    IF S = {} THEN <<>>
    ELSE LET x == IF r THEN CHOOSE y \in S : \A z \in S : UrlKey(y) >= UrlKey(z)
                       ELSE CHOOSE y \in S : \A z \in S : UrlKey(y) <= UrlKey(z)
         IN <<x>> \o SetToSeq(S \ {x}, r)

\* urllib.parse.urljoin(base_url, href) for root-relative and absolute hrefs
UrlJoin(base, href) ==
    IF href.host = "" THEN [href EXCEPT !.host = base.host] ELSE href

\* the string ends with "/"
EndsWithSlash(u) == u.slash /\ u.query = <<>> /\ u.frag = ""

\* str.rstrip('/')
RStripSlash(u) == IF EndsWithSlash(u) THEN [u EXCEPT !.slash = FALSE] ELSE u

\* urlparse(url).netloc
Netloc(u) == u.host

LowerHost(h) == IF h = "Example.com" THEN "example.com" ELSE h

\* tldextract.extract(domain): registrable name "." suffix, dots -> "_"
SimplifyDomain(u) ==
    CASE LowerHost(u.host) = "example.com" -> "example_com"
      [] LowerHost(u.host) = "magento-shop.org" -> "magento-shop_org"
      [] LowerHost(u.host) \in {"shop.example.com", "blog.example.com"} -> "example_com"
      [] OTHER -> "_"

----------------------------------------------------------------------------
(* Extractors *)

\* some regex of utils.config.PATTERNS is found in the URL
SimpleMatches(u) == u.sec \in {"product", "p"} /\ u.num > 0

\* ConfigParser.parse: the key of DOMAIN_PATTERNS chosen for a page
ConfigKey(base) ==
    IF Netloc(base) = "magento-shop.org" THEN "magento" ELSE "default"

\* some regex of the pattern list is found in the URL; the lists are
\* PATTERNS (also DOMAIN_PATTERNS["default"]) and DOMAIN_PATTERNS["magento"]
PatternMatches(patterns, u) ==
    IF patterns = "magento" THEN u.sec = "about.html" ELSE SimpleMatches(u)

\* _pattern_parser.parse; the sorted list of a set, given as the set
PatternParse(html, base_url, patterns) ==
    {RStripSlash(UrlJoin(base_url, a.href)) :
        a \in {b \in html : PatternMatches(patterns, UrlJoin(base_url, b.href))}}

SimpleParse(html, base_url) == PatternParse(html, base_url, "default")

ConfigParse(html, domain) == PatternParse(html, domain, ConfigKey(domain))

ParserParse(p, html, base) ==
    IF p = "simple" THEN SimpleParse(html, base) ELSE ConfigParse(html, base)

PARSERS_TO_USE_ConfigFirst == <<"config", "simple">>

\* PARSERS_TO_USE = [ParserType.SIMPLE, ParserType.CONFIG]
PARSERS_TO_USE == <<"simple", "config">>

ParserNames == {"simple", "config", "ai", "sequential"}

----------------------------------------------------------------------------
(* Link discovery: find_urls *)

\* the visible text contains one of the pagination indicators
TextIsPagination(t) == t \in {"Next", "next page", "Load more"}

\* some regex of PAGINATION_PATTERNS is found in the href
HrefIsPagination(h) ==
    \/ \E i \in DOMAIN h.query : h.query[i] = "page"
    \/ h.sec = "p" /\ h.num > 0 /\ ~h.slash /\ h.query = <<>> /\ h.frag = ""

IsPagination(a) == TextIsPagination(a.text) \/ HrefIsPagination(a.href)

find_urls(html, base_url, domain_netloc, r) ==
    LET internal == {a \in html : Netloc(UrlJoin(base_url, a.href)) = domain_netloc}
        pagination_urls == {UrlJoin(base_url, a.href) :
                               a \in {b \in internal : IsPagination(b)}}
        next_urls == {UrlJoin(base_url, a.href) :
                               a \in {b \in internal : ~IsPagination(b)}}
    IN SetToSeq(pagination_urls, r) \o SetToSeq(next_urls \ pagination_urls, r)

----------------------------------------------------------------------------
(* Sequential expander: generate_sequential_urls *)

max_urls == 30

sample_limit == 10

number_patterns == <<"/(\\d+)(?:/|$)", "p=(\\d+)", "page=(\\d+)", "-p(\\d+)", "_(\\d+)\\.html">>

\* re.search(pattern, url): only the first shape occurs among the URLs of
\* the served sites (their query values and file names carry no digits)
NumberMatch(k, u) ==
    k = 1 /\ u.num > 0 /\ (u.slash \/ (u.query = <<>> /\ u.frag = ""))

\* re.sub(pattern, ..., url) puts new_num at every match of the shape in the
\* URL: a URL with a second numeric segment (field item, /cat/12/item/34)
\* has it replaced as well
Substitute(u, new_num) ==
    IF "item" \in DOMAIN u THEN [u EXCEPT !.num = new_num, !.item = new_num]
    ELSE [u EXCEPT !.num = new_num]

\* the siblings of one sampled URL
Siblings(u) ==
    {Substitute(u, u.num + i) : i \in 1..3}
        \cup {Substitute(u, u.num - i) : i \in {j \in 1..3 : u.num > j}}

\* the index of the first shape found in the sample, 0 if none
FirstPattern(sample) ==
    IF \E k \in DOMAIN number_patterns : \E u \in sample : NumberMatch(k, u)
    THEN CHOOSE k \in DOMAIN number_patterns :
            /\ \E u \in sample : NumberMatch(k, u)
            /\ \A j \in 1..(k - 1) : \A u \in sample : ~NumberMatch(j, u)
    ELSE 0

\* what one sample yields before the cut at max_urls
FreshFromSample(sample, product_urls) ==
    LET k == FirstPattern(sample)
        sequential_urls ==
            IF k = 0 THEN {}
            ELSE UNION {Siblings(u) : u \in {v \in sample : NumberMatch(k, v)}}
    IN sequential_urls \ product_urls

RECURSIVE Without(_, _)
\* new_urls[:max_urls]: the sets left of S when k of its elements are cut off
Without(S, k) ==
    IF k = 0 THEN {S}
    ELSE UNION {Without(S \ {x}, k - 1) : x \in S}

\* the expander without its test of the input size and without its cut
generate_sequential_urls_Uncut(product_urls) ==
    {FreshFromSample(product_urls, product_urls)}

\* the set of lists generate_sequential_urls may return (each as a set): the
\* sample is random.sample's choice and the cut at max_urls follows the
\* iteration order of a set, so both are free whenever they discard a URL
generate_sequential_urls(product_urls) ==
    IF Cardinality(product_urls) < 3 THEN {{}}
    ELSE IF Cardinality(product_urls) <= sample_limit
            /\ Cardinality(FreshFromSample(product_urls, product_urls)) <= max_urls
    THEN {FreshFromSample(product_urls, product_urls)}
    ELSE LET n == IF Cardinality(product_urls) < sample_limit
                  THEN Cardinality(product_urls) ELSE sample_limit
         IN UNION {LET fresh == FreshFromSample(sample, product_urls)
                   IN IF Cardinality(fresh) <= max_urls THEN {fresh}
                      ELSE Without(fresh, Cardinality(fresh) - max_urls) :
                   sample \in {s \in SUBSET product_urls : Cardinality(s) = n}}

----------------------------------------------------------------------------
(* The served sites: what a fetch of a URL returns when it succeeds.  A    *)
(* page is the set of its <a href> tags.                                   *)

SeedA == Url("example.com", "", 0, TRUE, <<>>, "")          \* https://example.com/
SeedB == Url("magento-shop.org", "", 0, TRUE, <<>>, "")     \* https://magento-shop.org/

Seeds == {SeedA, SeedB}

\* two seeds of one task on different hosts of one registrable domain
SeedShop == Url("shop.example.com", "", 0, TRUE, <<>>, "")   \* https://shop.example.com/
SeedBlog == Url("blog.example.com", "", 0, TRUE, <<>>, "")   \* https://blog.example.com/

Webs == {"s1", "hub"}

\* scenario S1 of the specification on example.com; a slug page on the
\* other seed
SiteS1(u) ==
    IF u = SeedA
    THEN {Anchor("", Rel("product", 42)), Anchor("About", Rel("about", 0)),
          Anchor("", Url("", "p", 99, FALSE, <<"utm_source">>, ""))}
    ELSE IF u = SeedB
    THEN {Anchor("", Rel("about.html", 0)),
          Anchor("", Url("", "product", 5, TRUE, <<>>, ""))}
    ELSE {}

\* a listing site: the seed links eleven listing pages and three products
SiteHub(u) ==
    IF u = SeedA
    THEN {Anchor(IF k = 1 THEN "Next" ELSE "", Rel("list", k)) : k \in 1..11}
            \cup {Anchor("", Rel("product", n)) : n \in 100..102}
    ELSE IF u.host = "example.com" /\ u.sec = "list"
    THEN CASE u.num = 1 ->
                {Anchor("", Rel("list", 11)), Anchor("", Rel("list", 12)),
                 Anchor("", Url("Example.com", "product", 42, FALSE, <<>>, "top")),
                 Anchor("", Rel("product", 100))}
           [] u.num = 2 ->
                {Anchor("", Rel("list", 11))}
                    \cup {Anchor("", Rel("product", n)) : n \in 200..204}
           [] u.num = 3 ->
                {Anchor("", Rel("list", 11)),
                 Anchor("", Url("", "product", 7, TRUE, <<"ref">>, "")),
                 Anchor("", Url("magento-shop.org", "product", 9, TRUE, <<>>, ""))}
           [] u.num = 11 ->
                {Anchor("Home", Url("", "", 0, TRUE, <<>>, "")),
                 Anchor("", Rel("list", 1)), Anchor("", Rel("list", 12))}
           [] u.num = 12 ->
                {Anchor("", Rel("product", 300)), Anchor("", Rel("product", 103))}
           [] OTHER -> {Anchor("", Rel("list", 11))}
    ELSE IF u = SeedB
    THEN {Anchor("", Rel("about.html", 0)), Anchor("", Rel("list", 1))}
            \cup {Anchor("", Rel("product", n)) : n \in 1..3}
    ELSE IF u.host = "magento-shop.org" /\ u.sec = "list"
    THEN {Anchor("", Rel("about.html", 0)), Anchor("", Rel("product", 1)),
          Anchor("", Url("", "product", 4, FALSE, <<"utm_source">>, ""))}
    ELSE {}

Site(w, u) == IF w = "s1" THEN SiteS1(u) ELSE SiteHub(u)

\* every URL taken for an important one
IsImportant_Always(u) == TRUE

\* `if not html_content`, then the keyword test of the engine-level retry
IsImportant(u) == u.sec = "product"

----------------------------------------------------------------------------
(* Storage (worker/src/db/storage.py) *)

TheTask == "T1"

TaskIds == {"T1", "T2"}

SimpleDomains == {"example_com", "magento-shop_org"}

get_redis_key(domain, taskId) == <<"crawler_urls", taskId, SimplifyDomain(domain)>>

RedisKeys == {<<"crawler_urls", t, d>> : t \in TaskIds, d \in SimpleDomains}

\* Storage.store_temp: SADD of every URL (EXPIRE only moves the TTL)
store_temp(r, domain, taskId, urls) ==
    [r EXCEPT ![get_redis_key(domain, taskId)] = @ \cup Range(urls)]

\* Storage.get_temp
get_temp(r, domain, taskId) == r[get_redis_key(domain, taskId)]

\* collection.find_one({"_id": ..., "domain": ...}): the set of matches,
\* at most one because _id is the collection's unique key
find_one(coll, id, dom) == {d \in coll : d._id = id /\ d.domain = dom}

\* the stored list overwritten by the incoming batch
CombinedUrls_Overwrite(existing_urls, new_urls) == new_urls

\* `^` in place of `|`
CombinedUrls_SymDiff(existing_urls, new_urls) ==
    (existing_urls \ new_urls) \cup (new_urls \ existing_urls)

\* existing_urls.union(new_urls)
CombinedUrls(existing_urls, new_urls) == existing_urls \cup new_urls

\* collection.update_one({"_id": id}, {"$set": {"urls": urls}})
update_one(coll, id, urls) ==
    {IF d._id = id THEN [d EXCEPT !.urls = urls] ELSE d : d \in coll}

\* collection.insert_one(doc): DuplicateKeyError when the _id is taken; the
\* error is caught and logged by store_mongo, the collection is unchanged
insert_one(coll, doc) ==
    IF \E d \in coll : d._id = doc._id THEN coll ELSE coll \cup {doc}

\* Storage.store_mongo
store_mongo(coll, domain, taskId, urls, r) ==
    LET existing_doc == find_one(coll, taskId, SimplifyDomain(domain))
    IN IF existing_doc # {}
       THEN LET doc == CHOOSE d \in existing_doc : TRUE
            IN update_one(coll, taskId,
                          SetToSeq(CombinedUrls(Range(doc.urls), Range(urls)), r))
       ELSE insert_one(coll, [_id |-> taskId,
                              domain |-> SimplifyDomain(domain),
                              urls |-> urls])

\* Storage.get_from_mongo: the set of matching documents (empty for None)
get_from_mongo(coll, domain, task_id) ==
    find_one(coll, task_id, SimplifyDomain(domain))

----------------------------------------------------------------------------
(* process_url (worker/src/tasks.py) *)

batch_size == 10

frontier_limit == 500

short_circuit == 5

expand_min == 3

EmptyStats == [p \in ParserNames |-> [total |-> 0, domains |-> {}, unique |-> 0]]

\* the emission count assigned instead of added
AddTotal_Assign(stats, p, n, netloc) ==
    [stats EXCEPT ![p] = [@ EXCEPT !.total = n, !.domains = @ \cup {netloc}]]

\* parser_stats[p]["total"] += len(urls); parser_stats[p]["domains"].add(netloc)
AddTotal(stats, p, n, netloc) ==
    [stats EXCEPT ![p] = [@ EXCEPT !.total = @ + n, !.domains = @ \cup {netloc}]]

\* the entry written whether or not the URL has one
FirstFound_LastWins(ffb, urls, p) ==
    [u \in (DOMAIN ffb) \cup urls |-> IF u \in urls THEN p ELSE ffb[u]]

\* for found_url in urls: if found_url not in url_first_found_by: ... = p
FirstFound(ffb, urls, p) ==
    [u \in (DOMAIN ffb) \cup urls |-> IF u \in DOMAIN ffb THEN ffb[u] ELSE p]

\* the loop over the parsers never left early
EnoughGathered_Never(product_urls) == FALSE

\* `if len(product_urls) >= 5: break`
EnoughGathered(product_urls) == Cardinality(product_urls) >= short_circuit

RECURSIVE RunParsers(_, _, _, _, _)
\* the loop over parsers_to_use from its k-th element on
RunParsers(k, html, url, netloc, acc) ==
    IF k > Len(PARSERS_TO_USE) THEN acc
    ELSE LET p == PARSERS_TO_USE[k]
             urls == ParserParse(p, html, url)
             acc2 == [ffb |-> FirstFound(acc.ffb, urls, p),
                      stats |-> AddTotal(acc.stats, p, Cardinality(urls), netloc),
                      product_urls |-> acc.product_urls \cup urls,
                      emitted |-> [acc.emitted EXCEPT ![p] = urls],
                      ran |-> Append(acc.ran,
                                     [parser |-> p,
                                      urls |-> urls,
                                      gathered |-> Cardinality(acc.product_urls \cup urls)])]
         IN IF urls = {}
            THEN RunParsers(k + 1, html, url, netloc, [acc EXCEPT !.ran = acc2.ran])
            ELSE IF EnoughGathered(acc2.product_urls) THEN acc2
            ELSE RunParsers(k + 1, html, url, netloc, acc2)

\* links collected at the last depth as well (guard off by one)
NextUrls_OffByOne(html, url, netloc, depth, maxd, r) ==
    IF depth < maxd THEN find_urls(html, url, netloc, r) ELSE <<>>

\* next_urls of process_url
NextUrls(html, url, netloc, depth, maxd, r) ==
    IF depth < maxd - 1 THEN find_urls(html, url, netloc, r) ELSE <<>>

\* the pages whose fetch may come back empty: every page of the small site;
\* on the listing site the seeds and one listing page of each batch of depth 1
Unreliable(w, u) ==
    \/ w = "s1"
    \/ u \in Seeds
    \/ u.sec = "list" /\ u.num \in {2, 11}

\* `await fetch_page_async(url, session)` in process_url: the page or
\* nothing; or the await ends with an exception, which process_url logs and
\* raises again
FetchOutcomes(w, u, fails) ==
    {[ok |-> TRUE, html |-> Site(w, u), raises |-> FALSE]}
        \cup (IF fails < MaxFetchFail /\ Unreliable(w, u)
              THEN {[ok |-> FALSE, html |-> {}, raises |-> r] : r \in BOOLEAN}
              ELSE {})

Pending == [done |-> FALSE, exception |-> FALSE, product_urls |-> {}, next_urls |-> <<>>]

\* the record kept of a process_url call: whether it has returned, whether
\* its result went through the merge loop, the
\* URLs both parsers emitted on the page and those of them that had no
\* entry in url_first_found_by when the page was parsed, whether the page
\* was fetched, the parsers run on it, each with the URLs it returned and
\* the number of candidates gathered on the page once it had run, whether
\* the merge loop gave the page's candidates to generate_sequential_urls,
\* the URLs that returned, whether the call raised, and the number of
\* fetches it issued
NewCall(url, depth) ==
    [url |-> url, depth |-> depth, done |-> FALSE, merged |-> FALSE,
     both |-> {}, both_new |-> {}, fetched |-> FALSE, ran |-> <<>>,
     expanded |-> FALSE, synthesized |-> {}, raised |-> FALSE, fetches |-> 0]

----------------------------------------------------------------------------
(* crawl_single_domain_async (worker/src/tasks.py) *)

\* the batch taken without the visited test
BatchFilter_NoVisitedTest(slice, visited) == slice

\* batch = [url for url in urls_to_visit[i:i+batch_size] if url not in visited_urls]
BatchFilter(slice, visited) == SelectSeq(slice, LAMBDA u : u \notin visited)

Min(a, b) == IF a < b THEN a ELSE b

Slice(s, i) == SubSeq(s, i + 1, Min(i + batch_size, Len(s)))

\* a URL queued again when it is in the accumulator already
Appendable_Requeued(next_url, queue, visited) == next_url \notin visited

\* `if next_url not in visited_urls and next_url not in next_depth_urls`
Appendable(next_url, queue, visited) ==
    next_url \notin visited /\ next_url \notin Range(queue)

RECURSIVE AppendNew(_, _, _)
\* for next_url in next_urls: if not visited and not queued: append
AppendNew(queue, next_urls, visited) ==
    IF next_urls = <<>> THEN queue
    ELSE LET u == Head(next_urls)
         IN AppendNew(IF Appendable(u, queue, visited)
                      THEN Append(queue, u) ELSE queue,
                      Tail(next_urls), visited)

\* the synthesized URLs merged without an entry in url_first_found_by
MergeSequential_Untracked(acc, seq_urls, netloc) ==
    IF seq_urls = {} THEN acc
    ELSE [acc EXCEPT !.stats = AddTotal(@, "sequential", Cardinality(seq_urls), netloc),
                     !.products = @ \cup seq_urls]

\* the sequential-expansion block for one page's product_urls and one
\* outcome seq_urls of the expander
MergeSequential(acc, seq_urls, netloc) ==
    IF seq_urls = {} THEN acc
    ELSE [acc EXCEPT !.stats = AddTotal(@, "sequential", Cardinality(seq_urls), netloc),
                     !.ffb = FirstFound(@, seq_urls, "sequential"),
                     !.products = @ \cup seq_urls]

\* every result passed over as an exception is
MergeOne_AllSkipped(acc, result, visited, netloc) ==
    {[acc EXCEPT !.processed = @ + 1,
                 !.expanded = Append(@, FALSE),
                 !.synthesized = Append(@, {})]}

\* the body of `for url, result in zip(batch, results)` for one result:
\* the set of states it can leave
MergeOne(acc, result, visited, netloc) ==
    LET expand == /\ result.product_urls # {}
                  /\ Cardinality(result.product_urls) >= expand_min
        counted == [acc EXCEPT !.processed = @ + 1,
                               !.expanded = Append(@, expand),
                               !.synthesized = Append(@, {})]
        withProducts ==
            IF result.exception \/ result.product_urls = {} THEN {counted}
            ELSE LET added == [counted EXCEPT !.products = @ \cup result.product_urls]
                 IN IF expand
                    THEN {[MergeSequential(added, seq_urls, netloc)
                             EXCEPT !.synthesized[Len(counted.synthesized)] = seq_urls] :
                            seq_urls \in generate_sequential_urls(result.product_urls)}
                    ELSE {added}
    IN IF result.exception THEN {counted}
       ELSE {[a EXCEPT !.next = AppendNew(@, result.next_urls, visited)] :
                a \in withProducts}

RECURSIVE MergeFrom(_, _, _, _, _)
MergeFrom(k, res, acc, visited, netloc) ==
    IF k > Len(res) THEN {acc}
    ELSE UNION {MergeFrom(k + 1, res, a, visited, netloc) :
                    a \in MergeOne(acc, res[k], visited, netloc)}

category_match(u) == u.sec = "product" /\ (u.num > 0 \/ u.slash)

\* urls_to_visit for the next depth
RankFrontier(next) ==
    IF Len(next) > frontier_limit
    THEN SubSeq(SelectSeq(next, category_match)
                  \o SelectSeq(next, LAMBDA u : ~category_match(u)),
                1, frontier_limit)
    ELSE next

\* Storage.save (SAVE_IN_JSON and SAVE_IN_CSV are False)
SaveStores(r, coll, domain, taskId, urls, o) ==
    [redis |-> store_temp(r, domain, taskId, urls),
     mongo |-> store_mongo(coll, domain, taskId, urls, o)]

\* redis_client.sadd raises at some URL of the loop of store_temp: the URLs
\* before it are in the set
store_temp_partial(r, domain, taskId, urls, k) ==
    [r EXCEPT ![get_redis_key(domain, taskId)] = @ \cup Range(SubSeq(urls, 1, k))]

\* the ways one call of Storage.save can end while `budget` store faults
\* may still happen: both writes done; a fault of the durable store, which
\* store_mongo catches and logs, the collection unchanged; a fault of the
\* fast store, which store_temp does not catch, so that save raises before
\* store_mongo is called
SaveOutcomes(r, coll, domain, taskId, urls, o, budget) ==
    {[redis |-> SaveStores(r, coll, domain, taskId, urls, o).redis,
      mongo |-> SaveStores(r, coll, domain, taskId, urls, o).mongo,
      raised |-> FALSE, fault |-> "none"]}
    \cup (IF budget > 0
          THEN {[redis |-> store_temp(r, domain, taskId, urls),
                 mongo |-> coll, raised |-> FALSE, fault |-> "durable"]}
               \cup {[redis |-> store_temp_partial(r, domain, taskId, urls, k),
                      mongo |-> coll, raised |-> TRUE, fault |-> "fast"] :
                        k \in 0..Len(urls)}
          ELSE {})

\* the number of store faults in an outcome of Storage.save
Faults(after) == IF after.fault = "none" THEN 0 ELSE 1

\* the history of store faults: the seed whose pipeline called save, the
\* persist it was (periodic, final) and the index of the call in save_log
LogFault(log, after, i, at, call) ==
    IF after.fault = "none" THEN log
    ELSE Append(log, [store |-> after.fault, di |-> i, at |-> at, call |-> call])

\* the unique counts recomputed from url_first_found_by
WithUnique(stats, ffb) ==
    [p \in ParserNames |->
        [stats[p] EXCEPT !.unique = Cardinality({u \in DOMAIN ffb : ffb[u] = p})]]

----------------------------------------------------------------------------
(* State machine *)

DomainLists == {<<>>, <<SeedA>>, <<SeedB>>, <<SeedA, SeedB>>}

\* what AsyncResult(task_id) reads: the state and the `status` of the meta
\* of the last update_state call; retries counts the autoretry runs.  An id
\* the backend has no entry for reads as PENDING
TaskInfo(s, m, n) == [state |-> s, meta |-> m, retries |-> n]

NoTask == TaskInfo("PENDING", "", 0)

\* task_track_started=True: the worker reports STARTED when it calls the task
Started(n) == TaskInfo("STARTED", "", n)

\* self.update_state(state='PROGRESS', meta={'status': m, ...})
update_state(c, t, m) == [c EXCEPT ![t] = TaskInfo("PROGRESS", m, @.retries)]

\* the task function has returned: the backend stores the result
task_success(c, t) == [c EXCEPT ![t] = [@ EXCEPT !.state = "SUCCESS"]]

NoApiResponse == [op |-> "none"]

NoCancel == [kind |-> "none"]

NoUnit == [op |-> "none"]

NoResponse == [status |-> 0, source |-> "", task_id |-> "", domain |-> SeedA, urls |-> {}]

\* no crawl has run, both stores are empty, no request has been answered
Fresh ==
    /\ di = 0
    /\ all_results = <<>>
    /\ task_result = [status |-> "none"]
    /\ pc = "idle"
    /\ visited_urls = {}
    /\ urls_to_visit = <<>>
    /\ next_depth_urls = <<>>
    /\ domain_product_urls = {}
    /\ url_first_found_by = <<>>
    /\ parser_stats = EmptyStats
    /\ current_depth = 0
    /\ bi = 0
    /\ batch = <<>>
    /\ results = <<>>
    /\ processed_count = 0
    /\ total_count = 0
    /\ redis = [k \in RedisKeys |-> {}]
    /\ mongo = {}
    /\ calls = <<>>
    /\ fetch_fails = 0
    /\ seed_got = FALSE
    /\ save_log = <<>>
    /\ stores_before = [redis |-> [k \in RedisKeys |-> {}], mongo |-> {}]
    /\ response = NoResponse
    /\ held = [k \in RedisKeys |-> {}]
    /\ dispatched = <<>>
    /\ revoke_log = <<>>
    /\ api_response = NoApiResponse
    /\ cancel = NoCancel
    /\ fault_log = <<>>
    /\ frontiers = <<>>
    /\ domain_statuses = <<>>
    /\ progress_log = <<>>

\* update_domain_status: dict.update of the domain's entry
update_domain_status(statuses, domain, status_update) ==
    [statuses EXCEPT ![domain] = status_update @@ @]

\* crawl_task after process_domain has returned
MarkCompleted(statuses, domain, result) ==
    [statuses EXCEPT ![domain] =
        [status |-> "completed",
         urls_discovered |-> IF "urls_count" \in DOMAIN result
                             THEN result.urls_count ELSE 0] @@ @]

Init ==
    /\ web \in Webs
    /\ rev \in BOOLEAN
    /\ domains \in DomainLists
    /\ max_depth \in (-1)..MaxDepth
    /\ tpc = "start"
    /\ Fresh
    /\ unit = NoUnit
    /\ faults_left = 0
    /\ celery = [t \in TaskIds |-> IF t = TheTask THEN Started(0) ELSE NoTask]

\* crawl_task up to the domain loop: the two input checks
TaskStart ==
    /\ tpc = "start"
    /\ IF domains = <<>>
       THEN /\ task_result' = [status |-> "error",
                               message |-> "No domains provided for crawling"]
            /\ tpc' = "done"
            /\ di' = di
            /\ celery' = task_success(celery, TheTask)
            /\ domain_statuses' = domain_statuses
       ELSE IF max_depth = 0
       THEN /\ task_result' = [status |-> "error",
                               message |-> "No max depth provided for crawling"]
            /\ tpc' = "done"
            /\ di' = di
            /\ celery' = task_success(celery, TheTask)
            /\ domain_statuses' = domain_statuses
       ELSE /\ task_result' = task_result
            /\ tpc' = "domain"
            /\ di' = 1
            /\ celery' = update_state(celery, TheTask, "starting")
            /\ domain_statuses' =
                  [d \in {domains[i] : i \in DOMAIN domains} |->
                      [status |-> "pending", depth |-> 0, depth_progress |-> <<0, 0>>,
                       urls_discovered |-> 0]]
    /\ UNCHANGED <<web, rev, unit, progress_log, domains, max_depth, all_results, pipeVars,
                   storeVars, histVars, response, held, faults_left, apiVars, cancel, fault_log, frontiers>>

\* one iteration of `for i, domain in enumerate(domains)` up to the call of
\* process_domain, and the set-up of crawl_single_domain_async
DomainStart ==
    /\ tpc = "domain"
    /\ di <= Len(domains)
    /\ tpc' = "running"
    /\ pc' = "depth"
    /\ visited_urls' = {}
    /\ urls_to_visit' = <<domains[di]>>
    /\ next_depth_urls' = <<>>
    /\ domain_product_urls' = {}
    /\ url_first_found_by' = <<>>
    /\ parser_stats' = EmptyStats
    /\ current_depth' = 0
    /\ bi' = 0
    /\ batch' = <<>>
    /\ results' = <<>>
    /\ processed_count' = 0
    /\ total_count' = 0
    /\ calls' = <<>>
    /\ frontiers' = <<>>
    /\ seed_got' = FALSE
    /\ celery' = update_state(celery, TheTask, "processing")
    /\ domain_statuses' = [domain_statuses EXCEPT ![domains[di]].status = "crawling"]
    /\ progress_log' = <<>>
    /\ UNCHANGED <<web, rev, unit, domains, max_depth, di, all_results, task_result,
                   storeVars, fetch_fails, save_log, stores_before, response,
                   held, faults_left, apiVars, cancel, fault_log>>

\* the test of `while current_depth < max_depth and urls_to_visit` and the
\* statements before the batch loop
DepthStart ==
    /\ tpc = "running"
    /\ pc = "depth"
    /\ IF current_depth < max_depth /\ urls_to_visit # <<>>
       THEN /\ next_depth_urls' = <<>>
            /\ processed_count' = 0
            /\ total_count' = Len(urls_to_visit)
            /\ bi' = 0
            /\ pc' = "batch"
            /\ frontiers' = Append(frontiers, urls_to_visit)
            /\ LET meta == [status |-> "crawling",
                            domain |-> domains[di],
                            depth |-> current_depth,
                            depth_progress |-> <<0, Len(urls_to_visit)>>,
                            urls_discovered |-> Cardinality(domain_product_urls),
                            total_urls_to_process |-> Len(urls_to_visit)]
               IN /\ progress_log' = Append(progress_log, meta)
                  /\ domain_statuses' =
                        update_domain_status(domain_statuses, domains[di], meta)
       ELSE /\ pc' = "final"
            /\ UNCHANGED <<next_depth_urls, processed_count, total_count, bi,
                           frontiers, progVars>>
    /\ UNCHANGED <<web, rev, unit, taskVars, visited_urls, urls_to_visit,
                   domain_product_urls, url_first_found_by, parser_stats,
                   current_depth, batch, results, storeVars, histVars, response,
                   held, faults_left, celery, apiVars, cancel, fault_log>>

\* the head of the batch loop: the batch is filtered, marked visited and a
\* process_url coroutine is created for each of its URLs
BatchStart ==
    /\ tpc = "running"
    /\ pc = "batch"
    /\ LET b == BatchFilter(Slice(urls_to_visit, bi), visited_urls)
       IN /\ batch' = b
          /\ visited_urls' = visited_urls \cup Range(b)
          /\ results' = [k \in 1..Len(b) |-> Pending]
          /\ calls' = calls \o [k \in 1..Len(b) |-> NewCall(b[k], current_depth)]
    /\ pc' = "gather"
    /\ UNCHANGED <<web, rev, unit, progVars, taskVars, urls_to_visit, next_depth_urls,
                   domain_product_urls, url_first_found_by, parser_stats,
                   current_depth, bi, processed_count, total_count, storeVars,
                   fetch_fails, seed_got, save_log, stores_before, response, auxVars>>

\* one process_url coroutine of the gathered batch runs to its end
ProcessUrl(k) ==
    /\ tpc = "running"
    /\ pc = "gather"
    /\ k \in DOMAIN results
    /\ ~results[k].done
    /\ LET url == batch[k]
           netloc == Netloc(domains[di])
       IN \E first \in FetchOutcomes(web, url, fetch_fails) :
          LET fails1 == fetch_fails + (IF first.ok THEN 0 ELSE 1)
              retry == ~first.ok /\ ~first.raises /\ IsImportant(url)
          IN \E second \in (IF retry THEN FetchOutcomes(web, url, fails1)
                            ELSE {first}) :
             LET fails2 == fails1 + (IF retry /\ ~second.ok THEN 1 ELSE 0)
                 acc == RunParsers(1, second.html, url, netloc,
                                   [ffb |-> url_first_found_by,
                                    stats |-> parser_stats,
                                    product_urls |-> {},
                                    emitted |-> [p \in Range(PARSERS_TO_USE) |-> {}],
                                    ran |-> <<>>])
                 both == IF second.ok
                         THEN acc.emitted["simple"] \cap acc.emitted["config"]
                         ELSE {}
                 c == Len(calls) - Len(batch) + k
             IN /\ fetch_fails' = fails2
                /\ seed_got' = IF current_depth = 0 THEN second.ok ELSE seed_got
                /\ calls' = [calls EXCEPT ![c] =
                                [@ EXCEPT !.done = TRUE,
                                          !.fetched = second.ok,
                                          !.raised = second.raises,
                                          !.fetches = IF retry THEN 2 ELSE 1,
                                          !.ran = IF second.ok THEN acc.ran ELSE <<>>,
                                          !.both = both,
                                          !.both_new = both \ DOMAIN url_first_found_by]]
                /\ IF second.ok
                   THEN /\ url_first_found_by' = acc.ffb
                        /\ parser_stats' = acc.stats
                        /\ results' = [results EXCEPT ![k] =
                              [done |-> TRUE,
                               exception |-> FALSE,
                               product_urls |-> acc.product_urls,
                               next_urls |-> NextUrls(second.html, url, netloc,
                                                      current_depth, max_depth, rev)]]
                   ELSE /\ results' = [results EXCEPT ![k] =
                              [done |-> TRUE, exception |-> second.raises,
                               product_urls |-> {}, next_urls |-> <<>>]]
                        /\ UNCHANGED <<url_first_found_by, parser_stats>>
    /\ UNCHANGED <<web, rev, unit, progVars, taskVars, pc, visited_urls, urls_to_visit,
                   next_depth_urls, domain_product_urls, current_depth, bi,
                   batch, processed_count, total_count, storeVars,
                   save_log, stores_before, response, auxVars>>

\* the merge loop entered without waiting for the coroutines
GatherDone_NoWait(res) == TRUE

\* `results = await asyncio.gather(*tasks, return_exceptions=True)`: every
\* coroutine of the batch has returned
GatherDone(res) == \A k \in DOMAIN res : res[k].done

\* asyncio.gather has returned: the loop over zip(batch, results) and the
\* step of the batch loop
MergeBatch ==
    /\ tpc = "running"
    /\ pc = "gather"
    /\ GatherDone(results)
    /\ \E acc \in MergeFrom(1, results,
                            [processed |-> processed_count,
                             expanded |-> <<>>,
                             synthesized |-> <<>>,
                             products |-> domain_product_urls,
                             stats |-> parser_stats,
                             ffb |-> url_first_found_by,
                             next |-> next_depth_urls],
                            visited_urls, Netloc(domains[di])) :
          /\ processed_count' = acc.processed
          /\ domain_product_urls' = acc.products
          /\ parser_stats' = acc.stats
          /\ url_first_found_by' = acc.ffb
          /\ next_depth_urls' = acc.next
          /\ calls' = [c \in DOMAIN calls |->
                          IF c > Len(calls) - Len(batch)
                          THEN [calls[c] EXCEPT
                                  !.merged = TRUE,
                                  !.expanded =
                                     acc.expanded[c - (Len(calls) - Len(batch))],
                                  !.synthesized =
                                     acc.synthesized[c - (Len(calls) - Len(batch))]]
                          ELSE calls[c]]
    /\ LET meta == [status |-> "crawling",
                    domain |-> domains[di],
                    depth |-> current_depth,
                    depth_progress |-> <<processed_count', total_count>>,
                    urls_discovered |-> Cardinality(domain_product_urls'),
                    batch_progress |-> <<IF bi + batch_size < total_count
                                         THEN bi + batch_size ELSE total_count,
                                         total_count>>,
                    urls_in_next_depth |-> Len(next_depth_urls')]
       IN /\ progress_log' = Append(progress_log, meta)
          /\ domain_statuses' = update_domain_status(domain_statuses, domains[di], meta)
    /\ bi' = bi + batch_size
    /\ pc' = IF bi + batch_size < Len(urls_to_visit) THEN "batch" ELSE "depth_end"
    /\ UNCHANGED <<web, rev, unit, taskVars, visited_urls, urls_to_visit,
                   current_depth, batch, results, total_count, storeVars,
                   fetch_fails, seed_got, save_log, stores_before, response, auxVars>>

\* no persist at all
ShouldSave_Never(products) == FALSE

\* the persist taken whatever the set holds
ShouldSave_Always(products) == TRUE

\* `if domain_product_urls:` before both calls of storage.save
ShouldSave(products) == products # {}

\* the domain loop left at the first report that is not completed
NextTpc_StopOnError(i, doms, result) ==
    IF i < Len(doms) /\ result.status = "completed" THEN "domain" ELSE "aggregate"

\* `for i, domain in enumerate(domains)`: the loop goes on to the next seed
\* whatever process_domain returned
NextTpc(i, doms, result) == IF i < Len(doms) THEN "domain" ELSE "aggregate"

\* the report of crawl_single_domain_async
DomainReport(domain, products, stats, ffb) ==
    [status |-> "completed",
     domain |-> domain,
     urls_count |-> Cardinality(products),
     parser_stats |-> WithUnique(stats, ffb),
     parser_url_counts |->
        [p \in {ffb[u] : u \in DOMAIN ffb} |->
            Cardinality({u \in DOMAIN ffb : ffb[u] = p})]]

\* `except Exception as e:` of crawl_single_domain_async
ErrorReport(domain) == [status |-> "error", domain |-> domain, error |-> "e"]

\* after the batch loop: advance the depth, rank and cap the next frontier,
\* periodic persist.  When storage.save raises, the handler of
\* crawl_single_domain_async returns the error report and crawl_task goes on
\* with the rest of its loop body
DepthEnd ==
    /\ tpc = "running"
    /\ pc = "depth_end"
    /\ current_depth' = current_depth + 1
    /\ urls_to_visit' = RankFrontier(next_depth_urls)
    /\ IF ShouldSave(domain_product_urls)
       THEN LET urls == SetToSeq(domain_product_urls, rev)
            IN \E after \in SaveOutcomes(redis, mongo, domains[di], TheTask,
                                         urls, rev, faults_left) :
                  /\ redis' = after.redis
                  /\ mongo' = after.mongo
                  /\ faults_left' = faults_left - Faults(after)
                  /\ fault_log' = LogFault(fault_log, after, di, "periodic", Len(save_log) + 1)
                  /\ save_log' = Append(save_log, [domain |-> domains[di],
                                                   taskId |-> TheTask,
                                                   urls |-> urls])
                  /\ stores_before' = [redis |-> redis, mongo |-> mongo]
                  /\ IF after.raised
                     THEN /\ all_results' = Append(all_results, ErrorReport(domains[di]))
                          /\ pc' = "done"
                          /\ di' = di + 1
                          /\ tpc' = NextTpc(di, domains, ErrorReport(domains[di]))
                     ELSE /\ pc' = "depth"
                          /\ UNCHANGED <<all_results, di, tpc>>
       ELSE /\ pc' = "depth"
            /\ UNCHANGED <<redis, mongo, faults_left, fault_log, save_log,
                           stores_before, all_results, di, tpc>>
    /\ LET meta == [status |-> "crawling",
                    domain |-> domains[di],
                    depth |-> current_depth',
                    depth_complete |-> TRUE,
                    urls_discovered |-> Cardinality(domain_product_urls),
                    next_depth_urls |-> Len(urls_to_visit')]
       IN IF pc' = "done"
          THEN /\ progress_log' = progress_log
               /\ domain_statuses' =
                     MarkCompleted(domain_statuses, domains[di], ErrorReport(domains[di]))
          ELSE /\ progress_log' = Append(progress_log, meta)
               /\ domain_statuses' =
                     update_domain_status(domain_statuses, domains[di], meta)
    /\ UNCHANGED <<web, rev, unit, domains, max_depth, task_result, visited_urls,
                   next_depth_urls, domain_product_urls, url_first_found_by,
                   parser_stats, bi, batch, results, processed_count,
                   total_count, calls, fetch_fails, seed_got, response, held, celery,
                   apiVars, cancel, frontiers>>

\* the end of crawl_single_domain_async (final persist, report) and the
\* rest of the iteration of crawl_task's domain loop
Finish ==
    /\ tpc = "running"
    /\ pc = "final"
    /\ \E after \in (IF ShouldSave(domain_product_urls)
                     THEN SaveOutcomes(redis, mongo, domains[di], TheTask,
                                       SetToSeq(domain_product_urls, rev), rev,
                                       faults_left)
                     ELSE {[redis |-> redis, mongo |-> mongo,
                            raised |-> FALSE, fault |-> "none"]}) :
          LET report == IF after.raised THEN ErrorReport(domains[di])
                        ELSE DomainReport(domains[di], domain_product_urls,
                                          parser_stats, url_first_found_by)
          IN /\ redis' = after.redis
             /\ mongo' = after.mongo
             /\ faults_left' = faults_left - Faults(after)
             /\ fault_log' = LogFault(fault_log, after, di, "final", Len(save_log) + 1)
             /\ IF ShouldSave(domain_product_urls)
                THEN /\ save_log' = Append(save_log,
                                           [domain |-> domains[di],
                                            taskId |-> TheTask,
                                            urls |-> SetToSeq(domain_product_urls, rev)])
                     /\ stores_before' = [redis |-> redis, mongo |-> mongo]
                ELSE UNCHANGED <<save_log, stores_before>>
             /\ parser_stats' = IF after.raised THEN parser_stats
                                ELSE WithUnique(parser_stats, url_first_found_by)
             /\ all_results' = Append(all_results, report)
             /\ tpc' = NextTpc(di, domains, report)
             /\ domain_statuses' = MarkCompleted(domain_statuses, domains[di], report)
    /\ pc' = "done"
    /\ di' = di + 1
    /\ UNCHANGED <<web, rev, unit, progress_log, domains, max_depth, task_result, visited_urls,
                   urls_to_visit, next_depth_urls, domain_product_urls,
                   url_first_found_by, current_depth, bi, batch, results,
                   processed_count, total_count, calls, fetch_fails, seed_got, response,
                   held, celery, apiVars, cancel, frontiers>>

----------------------------------------------------------------------------
(* aggregate_results_locally (worker/src/tasks.py) *)

RECURSIVE SumSeq(_)
SumSeq(s) == IF s = <<>> THEN 0 ELSE Head(s) + SumSeq(Tail(s))

RECURSIVE SumSet(_, _)
\* sum(d.values()) for a dict d over the keys K
SumSet(d, K) ==
    IF K = {} THEN 0
    ELSE LET k == CHOOSE x \in K : TRUE IN d[k] + SumSet(d, K \ {k})

Completed(rs) == SelectSeq(rs, LAMBDA r : r.status = "completed")

\* urls_count_by_domain: the last completed report of a domain wins
UrlsCountByDomain(rs) ==
    [d \in {rs[i].domain : i \in DOMAIN rs} |->
        LET last == CHOOSE i \in DOMAIN rs :
                        /\ rs[i].domain = d
                        /\ \A j \in DOMAIN rs : rs[j].domain = d => j <= i
        IN rs[last].urls_count]

aggregate_results_locally(domain_results, task_id, doms) ==
    LET rs == Completed(domain_results)
        by_domain == UrlsCountByDomain(rs)
    IN [status |-> "completed",
        task_id |-> task_id,
        domains |-> doms,
        urls_count |-> by_domain,
        total_urls |-> SumSet(by_domain, DOMAIN by_domain),
        parser_stats |->
            [p \in ParserNames |->
                [total |-> SumSeq([i \in DOMAIN rs |-> rs[i].parser_stats[p].total]),
                 unique |-> SumSeq([i \in DOMAIN rs |-> rs[i].parser_stats[p].unique]),
                 domains |-> Cardinality(UNION {rs[i].parser_stats[p].domains :
                                                   i \in DOMAIN rs})]],
        urls_by_parser |->
            [p \in UNION {DOMAIN rs[i].parser_url_counts : i \in DOMAIN rs} |->
                SumSeq([i \in DOMAIN rs |->
                          IF p \in DOMAIN rs[i].parser_url_counts
                          THEN rs[i].parser_url_counts[p] ELSE 0])]]

\* the return of crawl_task
Aggregate ==
    /\ tpc = "aggregate"
    /\ task_result' = aggregate_results_locally(all_results, TheTask, domains)
    /\ tpc' = "done"
    /\ celery' = task_success(celery, TheTask)
    /\ UNCHANGED <<web, rev, unit, progVars, domains, max_depth, di, all_results, pipeVars,
                   storeVars, histVars, response, held, faults_left, apiVars, cancel, fault_log, frontiers>>

----------------------------------------------------------------------------
(* The read path of the API server (server/src/main.py) and the storage    *)
(* interface driven by arbitrary callers                                    *)

\* the body of the try block of get_urls; status 404 stands for the raised
\* HTTPException(status_code=404)
get_urls_try(r, coll, task_id, domain) ==
    LET redis_urls == get_temp(r, domain, task_id)
        mongo_result == get_from_mongo(coll, domain, task_id)
    IN IF redis_urls # {}
       THEN [status |-> 200, source |-> "redis", task_id |-> task_id,
             domain |-> domain, urls |-> redis_urls]
       ELSE IF mongo_result # {}
       THEN [status |-> 200, source |-> "mongodb", task_id |-> task_id,
             domain |-> domain,
             urls |-> Range((CHOOSE d \in mongo_result : TRUE).urls)]
       ELSE [status |-> 404, source |-> "", task_id |-> task_id,
             domain |-> domain, urls |-> {}]

\* `except Exception as e: raise HTTPException(status_code=500, ...)`:
\* HTTPException is an Exception, so the 404 raised in the try block is
\* caught here as well
get_urls_except(raised) == [raised EXCEPT !.status = 500]

\* GET /urls/{task_id}/{domain}
get_urls(r, coll, task_id, domain) ==
    LET answer == get_urls_try(r, coll, task_id, domain)
    IN IF answer.status = 200 THEN answer ELSE get_urls_except(answer)

PoolA == Url("example.com", "product", 42, FALSE, <<>>, "")
PoolB == Url("example.com", "p", 99, FALSE, <<"utm_source">>, "")

\* the URL lists handed to Storage.save: list(domain_product_urls) of a
\* non-empty set
Batches(r) == {SetToSeq(S, r) : S \in (SUBSET {PoolA, PoolB}) \ {{}}}

InitStore ==
    /\ web = "s1"
    /\ rev \in BOOLEAN
    /\ domains = <<>>
    /\ max_depth = 0
    /\ tpc = "store"
    /\ Fresh
    /\ unit = NoUnit
    /\ faults_left = 0
    /\ celery = [t \in TaskIds |-> NoTask]

\* Storage.save(domain, taskId, urls)
Save(domain, taskId, urls) ==
    /\ tpc = "store"
    /\ Len(save_log) < MaxSaves
    /\ \E after \in SaveOutcomes(redis, mongo, domain, taskId, urls, rev,
                                 faults_left) :
          /\ redis' = after.redis
          /\ mongo' = after.mongo
          /\ faults_left' = faults_left - Faults(after)
          /\ fault_log' = LogFault(fault_log, after, 0, "call", Len(save_log) + 1)
    /\ save_log' = Append(save_log, [domain |-> domain, taskId |-> taskId,
                                     urls |-> urls])
    /\ stores_before' = [redis |-> redis, mongo |-> mongo]
    /\ response' = NoResponse
    /\ UNCHANGED <<web, rev, unit, progVars, taskVars, pipeVars, calls, fetch_fails, seed_got, held,
                   celery, apiVars, cancel, frontiers>>

\* redis_client.expire(redis_key, self.redis_expire) takes effect: every
\* write re-arms the TTL of the key, so the key lapses only after the last
\* write to it, when the crawl has returned; Redis then deletes the set
Expire(k) ==
    /\ tpc = "done"
    /\ redis[k] # {}
    /\ redis' = [redis EXCEPT ![k] = {}]
    /\ held' = [held EXCEPT ![k] = redis[k]]
    /\ response' = NoResponse
    /\ UNCHANGED <<web, rev, unit, progVars, taskVars, pipeVars, mongo, histVars, faults_left, celery, apiVars, cancel, fault_log, frontiers>>

\* a client calls GET /urls/{task_id}/{domain}
GetUrls(task_id, domain) ==
    /\ tpc \in {"store", "done"}
    /\ response' = get_urls(redis, mongo, task_id, domain)
    /\ UNCHANGED <<web, rev, unit, progVars, taskVars, pipeVars, storeVars, histVars, auxVars>>

Next ==
    \/ TaskStart
    \/ DomainStart
    \/ DepthStart
    \/ BatchStart
    \/ \E k \in 1..batch_size : ProcessUrl(k)
    \/ MergeBatch
    \/ DepthEnd
    \/ Finish
    \/ Aggregate
    \/ \E d \in Seeds : Expire(get_redis_key(d, TheTask))
    \/ \E d \in Seeds : GetUrls(TheTask, d)

Spec == Init /\ [][Next]_vars

NextStore ==
    \/ \E d \in Seeds : \E t \in TaskIds : \E urls \in Batches(rev) :
          Save(d, t, urls)
    \/ \E t \in TaskIds : \E d \in Seeds : GetUrls(t, d)

SpecStore == InitStore /\ [][NextStore]_vars

\* `for i, domain in enumerate(domains)` of crawl_task with
\* domains = [https://shop.example.com/, https://blog.example.com/]
SiblingSeeds == <<SeedShop, SeedBlog>>

\* product URLs found on the pages of seed i, the members of its
\* domain_product_urls
SiblingPool(i) ==
    {Url(SiblingSeeds[i].host, "product", 10 * i + n, FALSE, <<>>, "") : n \in 1..2}

\* a Storage.save of the pipeline of seed i: the pipelines run one after
\* the other, so no later seed has saved yet
SiblingSave(i, urls) ==
    /\ \A k \in DOMAIN save_log :
          \E j \in 1..i : save_log[k].domain = SiblingSeeds[j]
    /\ Save(SiblingSeeds[i], TheTask, urls)

NextSiblings ==
    \/ \E i \in DOMAIN SiblingSeeds : \E S \in (SUBSET SiblingPool(i)) \ {{}} :
          SiblingSave(i, SetToSeq(S, rev))
    \/ \E i \in DOMAIN SiblingSeeds : GetUrls(TheTask, SiblingSeeds[i])

SpecSiblings == InitStore /\ [][NextSiblings]_vars

----------------------------------------------------------------------------
(* The task endpoints of the API server (server/src/main.py) and the life   *)
(* of a dispatched crawl task in the result backend                         *)

\* the ids Celery has not handed out yet
FreshIds == {t \in TaskIds : \A i \in DOMAIN dispatched : dispatched[i].id # t}

\* the request bodies tried on POST /crawl/
ApiDomainLists == {<<>>, <<SeedA>>}

ApiDepths == {-1, 0, 1}

\* POST /crawl/: trigger_crawl(domains, max_depth).  apply_async either
\* puts the task on the queue or raises (broker unreachable); `before` is
\* the length of the queue when the request came in
TriggerCrawl(doms, md) ==
    /\ tpc = "api"
    /\ FreshIds # {}
    /\ \E broker_up \in BOOLEAN :
          IF broker_up
          THEN LET id == CHOOSE x \in FreshIds : \A y \in FreshIds : x = y \/ x = "T1"
               IN /\ dispatched' = Append(dispatched,
                                          [id |-> id, domains |-> doms, max_depth |-> md])
                  /\ api_response' = [op |-> "crawl", code |-> 200, task_id |-> id,
                                      status |-> "Crawling started",
                                      domains |-> doms, max_depth |-> md,
                                      before |-> Len(dispatched)]
          ELSE /\ dispatched' = dispatched
               /\ api_response' = [op |-> "crawl", code |-> 500, task_id |-> "",
                                   status |-> "Failed to start crawl task",
                                   domains |-> doms, max_depth |-> md,
                                   before |-> Len(dispatched)]
    /\ UNCHANGED <<web, rev, unit, progVars, taskVars, pipeVars, storeVars, histVars, response,
                   held, faults_left, celery, revoke_log, cancel, fault_log, frontiers>>

\* where the engine stands when a cancellation meets the running pipeline
CancelHere(kind) ==
    [kind |-> kind, di |-> di, calls |-> Len(calls), products |-> domain_product_urls]

\* the states revoke_task lists, with PROGRESS added
RevocableStates_WithProgress == {"PENDING", "STARTED", "RETRY", "PROGRESS"}

\* `if task.state in ['PENDING', 'STARTED', 'RETRY']`
RevocableStates == {"PENDING", "STARTED", "RETRY"}

\* DELETE /task/{task_id}?terminate=...: revoke_task.  `seen` is the state
\* AsyncResult reported and `before` the number of revokes issued so far.
\* Of the requests that come in while a pipeline runs the first is followed
RevokeTask(task_id, terminate) ==
    /\ tpc \in {"api", "start", "domain", "running"}
    /\ tpc = "running" => cancel.kind = "none"
    /\ cancel' = IF tpc = "running" THEN CancelHere("request") ELSE cancel
    /\ LET state == celery[task_id].state
       IN IF state \in RevocableStates
          THEN /\ Len(revoke_log) < MaxRevokes
               /\ revoke_log' = Append(revoke_log,
                                       [task_id |-> task_id, terminate |-> terminate])
               /\ api_response' = [op |-> "revoke", task_id |-> task_id,
                                   terminate |-> terminate, seen |-> state,
                                   before |-> Len(revoke_log),
                                   message |-> "has been revoked"]
          ELSE /\ revoke_log' = revoke_log
               /\ api_response' = [op |-> "revoke", task_id |-> task_id,
                                   terminate |-> terminate, seen |-> state,
                                   before |-> Len(revoke_log),
                                   message |-> "cannot be revoked"]
    /\ UNCHANGED <<web, rev, unit, progVars, taskVars, pipeVars, storeVars, histVars, response,
                   held, faults_left, celery, dispatched, fault_log, frontiers>>

\* retry_kwargs={'max_retries': 1, ...}
max_retries == 1

Revoked(t) == \E i \in DOMAIN revoke_log : revoke_log[i].task_id = t

Terminated(t) ==
    \E i \in DOMAIN revoke_log : revoke_log[i].task_id = t /\ revoke_log[i].terminate

\* the states a dispatched task with arguments `args` can move to from
\* `info`: the worker starts it (or drops it when it was revoked), crawl_task
\* returns at once on rejected input, reports progress, returns, or raises
\* and is retried once (autoretry_for=(Exception,)); a revoke with
\* terminate=True ends the run
CeleryMoves(info, args, revoked, terminated) ==
    CASE info.state = "PENDING" ->
            {Started(info.retries)}
                \cup (IF revoked THEN {[info EXCEPT !.state = "REVOKED"]} ELSE {})
      [] info.state = "STARTED" ->
            (IF args.domains = <<>> \/ args.max_depth = 0
             THEN {[info EXCEPT !.state = "SUCCESS"]}
             ELSE {TaskInfo("PROGRESS", "starting", info.retries)})
                \cup (IF terminated THEN {[info EXCEPT !.state = "REVOKED"]} ELSE {})
      [] info.state = "PROGRESS" ->
            {TaskInfo("PROGRESS", "processing", info.retries),
             [info EXCEPT !.state = IF info.retries < max_retries
                                    THEN "RETRY" ELSE "FAILURE"]}
                \cup (IF info.meta = "processing"
                      THEN {[info EXCEPT !.state = "SUCCESS"]} ELSE {})
                \cup (IF terminated THEN {[info EXCEPT !.state = "REVOKED"]} ELSE {})
      [] info.state = "RETRY" ->
            {Started(info.retries + 1)}
                \cup (IF revoked THEN {[info EXCEPT !.state = "REVOKED"]} ELSE {})
      [] OTHER -> {}

\* one step in the life of a dispatched task
CeleryStep(i) ==
    /\ tpc = "api"
    /\ i \in DOMAIN dispatched
    /\ LET t == dispatched[i].id
       IN \E next \in CeleryMoves(celery[t], dispatched[i], Revoked(t), Terminated(t)) :
             /\ next # celery[t]
             /\ celery' = [celery EXCEPT ![t] = next]
    /\ UNCHANGED <<web, rev, unit, progVars, taskVars, pipeVars, storeVars, histVars, response,
                   held, faults_left, apiVars, cancel, fault_log, frontiers>>

\* task.revoke(terminate=True) reaches the worker while crawl_task runs:
\* the worker ends the process that executes the task (a revoke without
\* terminate does not touch a task that has started)
WorkerTerminate ==
    /\ tpc \in {"start", "domain", "running"}
    /\ Terminated(TheTask)
    /\ cancel' = IF tpc = "running" THEN CancelHere("terminate") ELSE cancel
    /\ tpc' = "killed"
    /\ celery' = [celery EXCEPT ![TheTask] = [@ EXCEPT !.state = "REVOKED"]]
    /\ UNCHANGED <<web, rev, unit, progVars, domains, max_depth, di, all_results, task_result,
                   pipeVars, storeVars, histVars, response, held, faults_left,
                   apiVars, fault_log, frontiers>>

InitApi ==
    /\ web = "s1"
    /\ rev = FALSE
    /\ domains = <<>>
    /\ max_depth = 0
    /\ tpc = "api"
    /\ Fresh
    /\ unit = NoUnit
    /\ faults_left = 0
    /\ celery = [t \in TaskIds |-> NoTask]

NextApi ==
    \/ \E doms \in ApiDomainLists : \E md \in ApiDepths : TriggerCrawl(doms, md)
    \/ \E t \in TaskIds : \E terminate \in BOOLEAN : RevokeTask(t, terminate)
    \/ \E i \in 1..Cardinality(TaskIds) : CeleryStep(i)

SpecApi == InitApi /\ [][NextApi]_vars

----------------------------------------------------------------------------
(* Properties *)

\* the URLs of the durable record read for (task_id, domain)
DurableUrls(coll, domain, task_id) ==
    UNION {Range(d.urls) : d \in get_from_mongo(coll, domain, task_id)}

\* C1: within one run of crawl_single_domain_async every URL string is
\* handed to process_url at most once, over all batches and depths
C1_NoUrlFetchedTwice ==
    \A i, j \in DOMAIN calls : calls[i].url = calls[j].url => i = j

\* a URL that was queued again for the next depth while it waited in a later
\* batch has been dropped by the batch filter of that next depth
C1_Witness ==
    /\ pc = "gather"
    /\ current_depth >= 2
    /\ \E u \in Range(Slice(urls_to_visit, bi)) :
          /\ u \notin Range(batch)
          /\ \E i \in DOMAIN calls : calls[i].url = u /\ calls[i].depth = current_depth - 1

\* C2: process_url runs only at depths 0..max_depth-1, and with
\* max_depth = 1 only the seed is fetched and no link is collected
C2_DepthBound ==
    /\ \A i \in DOMAIN calls : calls[i].depth < max_depth
    /\ \A i \in DOMAIN calls : calls[i].depth <= current_depth
    /\ max_depth = 1 =>
          /\ Len(calls) <= 1
          /\ \A i \in DOMAIN calls : calls[i].url \in Range(domains)
          /\ next_depth_urls = <<>>
          /\ urls_to_visit \in {<<>>} \cup {<<d>> : d \in Range(domains)}
          /\ \A k \in DOMAIN results : results[k].next_urls = <<>>

\* with max_depth = 1 the seed page, which has internal links, was fetched
\* and the pipeline has ended
C2_Witness ==
    /\ max_depth = 1
    /\ pc = "done"
    /\ Len(calls) = 1
    /\ results[1].product_urls # {}
    /\ find_urls(Site(web, calls[1].url), calls[1].url, Netloc(calls[1].url), rev) # <<>>

\* C7: in every completed domain report the unique counts of the four
\* parsers add up to urls_count, and at the end of the pipeline the keys of
\* url_first_found_by are the discovered product URLs
C7_UniqueSumsToCount ==
    /\ \A i \in DOMAIN all_results :
          all_results[i].status = "completed" =>
             all_results[i].parser_stats["simple"].unique
               + all_results[i].parser_stats["config"].unique
               + all_results[i].parser_stats["ai"].unique
               + all_results[i].parser_stats["sequential"].unique
             = all_results[i].urls_count
    /\ pc \in {"final", "done"} => DOMAIN url_first_found_by = domain_product_urls

\* a report in which three parsers have first finds
C7_Witness ==
    \E i \in DOMAIN all_results :
        /\ all_results[i].status = "completed"
        /\ all_results[i].parser_stats["simple"].unique > 0
        /\ all_results[i].parser_stats["config"].unique > 0
        /\ all_results[i].parser_stats["sequential"].unique > 0

\* C8: unique <= total for every parser, in the running statistics and in
\* every domain report
C8_UniqueLeTotal ==
    /\ \A p \in ParserNames : parser_stats[p].unique <= parser_stats[p].total
    /\ \A p \in ParserNames :
          Cardinality({u \in DOMAIN url_first_found_by : url_first_found_by[u] = p})
             <= parser_stats[p].total
    /\ \A i \in DOMAIN all_results : \A p \in ParserNames :
          all_results[i].status = "completed" =>
             all_results[i].parser_stats[p].unique <= all_results[i].parser_stats[p].total

\* a report after several pages in which a parser emitted a URL more than
\* once and the expander ran
C8_Witness ==
    \E i \in DOMAIN all_results :
        /\ all_results[i].status = "completed"
        /\ all_results[i].parser_stats["simple"].unique > 0
        /\ all_results[i].parser_stats["simple"].total
              > all_results[i].parser_stats["simple"].unique
        /\ all_results[i].parser_stats["sequential"].total
              > all_results[i].parser_stats["sequential"].unique
        /\ all_results[i].parser_stats["sequential"].unique > 0

\* C3: once a persist has returned, every member of the fast-store set of
\* a (task_id, domain) is contained in the durable record of that pair
C3_FastSubsetOfDurable ==
    save_log # <<>> =>
        \A t \in TaskIds : \A d \in Seeds :
            get_temp(redis, d, t) \subseteq DurableUrls(mongo, d, t)

\* the URLs handed to Storage.save for a seed so far
SavedFor(domain, taskId) ==
    UNION {Range(save_log[i].urls) :
             i \in {j \in DOMAIN save_log :
                      /\ save_log[j].taskId = taskId
                      /\ SimplifyDomain(save_log[j].domain) = SimplifyDomain(domain)}}

\* C4: after a task with two seeds of different simplified domains has
\* persisted both, get_from_mongo returns for each seed a record holding
\* the URLs persisted for that seed
C4_RecordPerSeed ==
    (/\ tpc = "done"
     /\ Len(domains) = 2
     /\ SimplifyDomain(domains[1]) # SimplifyDomain(domains[2])
     /\ \A i \in DOMAIN domains : SavedFor(domains[i], TheTask) # {})
    => \A i \in DOMAIN domains :
          /\ get_from_mongo(mongo, domains[i], TheTask) # {}
          /\ DurableUrls(mongo, domains[i], TheTask) = SavedFor(domains[i], TheTask)

\* every call so far wrote the same (task_id, domain)
SameKeyOnly ==
    \A i, j \in DOMAIN save_log :
        /\ save_log[i].taskId = save_log[j].taskId
        /\ SimplifyDomain(save_log[i].domain) = SimplifyDomain(save_log[j].domain)

\* C5: after any sequence of store_mongo calls for one (task_id, domain)
\* the record's urls have no duplicate and are the union of all batches
\* written; no write removes a URL stored before
C5_MergeIsUnion ==
    /\ (save_log # <<>> /\ SameKeyOnly) =>
          LET d == save_log[1].domain
              t == save_log[1].taskId
          IN /\ Cardinality(get_from_mongo(mongo, d, t)) = 1
             /\ \A doc \in get_from_mongo(mongo, d, t) : NoDup(doc.urls)
             /\ DurableUrls(mongo, d, t) = SavedFor(d, t)
    /\ \A t \in TaskIds : \A d \in Seeds :
          DurableUrls(stores_before.mongo, d, t) \subseteq DurableUrls(mongo, d, t)

\* three writes to one record, the last one bringing less than is stored
C5_Witness ==
    /\ tpc = "store"
    /\ Len(save_log) = 3
    /\ SameKeyOnly
    /\ Range(save_log[1].urls) = {PoolA}
    /\ Range(save_log[2].urls) = {PoolB}
    /\ Range(save_log[3].urls) = {PoolA}
    /\ DurableUrls(mongo, save_log[1].domain, save_log[1].taskId) = {PoolA, PoolB}

\* the last two calls of Storage.save had the same arguments
RepeatedSave ==
    /\ Len(save_log) >= 2
    /\ save_log[Len(save_log)].domain = save_log[Len(save_log) - 1].domain
    /\ save_log[Len(save_log)].taskId = save_log[Len(save_log) - 1].taskId
    /\ Range(save_log[Len(save_log)].urls) = Range(save_log[Len(save_log) - 1].urls)

\* C6: a second Storage.save with the same arguments changes neither the
\* fast-store sets nor the URL set of any durable record
C6_SaveIdempotent ==
    RepeatedSave =>
        /\ redis = stores_before.redis
        /\ \A t \in TaskIds : \A d \in Seeds :
              DurableUrls(mongo, d, t) = DurableUrls(stores_before.mongo, d, t)
        /\ {<<doc._id, doc.domain>> : doc \in mongo}
              = {<<doc._id, doc.domain>> : doc \in stores_before.mongo}

\* a save repeated on a record that already held more than the batch
C6_Witness ==
    /\ tpc = "store"
    /\ RepeatedSave
    /\ Len(save_log) = 3
    /\ Len(save_log[3].urls) = 1
    /\ Cardinality(DurableUrls(mongo, save_log[3].domain, save_log[3].taskId)) = 2
    /\ Cardinality(get_temp(redis, save_log[3].domain, save_log[3].taskId)) = 2

\* a query parameter the specification counts as tracking
TrackingParam(name) ==
    name \in {"utm_source", "utm_medium", "utm_campaign", "utm_content",
              "ref", "session", "tracking", "click", "affiliate", "source"}

\* the ProductURL invariant of the specification
IsNormalized(u) ==
    /\ u.host # ""
    /\ u.host = LowerHost(u.host)
    /\ ~u.slash
    /\ u.frag = ""
    /\ \A i \in DOMAIN u.query : ~TrackingParam(u.query[i])

\* C9: every URL handed to Storage.save is absolute, without trailing "/",
\* fragment or tracking parameter, and has a lower-case host
C9_PersistedNormalized ==
    \A i \in DOMAIN save_log : \A u \in Range(save_log[i].urls) : IsNormalized(u)

\* C11: a GET /urls for a seed of the finished task is answered from the
\* fast store while its set is non-empty, and once the key has expired from
\* the durable store with the URL set the key held
C11_ReadFallback ==
    \A d \in Range(domains) :
        (/\ tpc = "done"
         /\ response.status # 0
         /\ response.task_id = TheTask
         /\ response.domain = d)
        => LET k == get_redis_key(d, TheTask)
           IN /\ redis[k] # {} =>
                    /\ response.status = 200
                    /\ response.source = "redis"
                    /\ response.urls = redis[k]
              /\ (redis[k] = {} /\ held[k] # {}) =>
                    /\ response.status = 200
                    /\ response.source = "mongodb"
                    /\ response.urls = held[k]

\* C10: GET /urls answers 404 when neither store holds URLs for the pair
C10_NotFoundIs404 ==
    (/\ response.status # 0
     /\ get_temp(redis, response.domain, response.task_id) = {}
     /\ get_from_mongo(mongo, response.domain, response.task_id) = {})
    => response.status = 404

\* the engine while the stores can fail
InitFault ==
    /\ web = "s1"
    /\ rev \in BOOLEAN
    /\ domains \in DomainLists
    /\ max_depth \in (-1)..MaxDepth
    /\ tpc = "start"
    /\ Fresh
    /\ unit = NoUnit
    /\ faults_left = MaxStoreFail
    /\ celery = [t \in TaskIds |-> IF t = TheTask THEN Started(0) ELSE NoTask]

SpecFault == InitFault /\ [][Next]_vars

\* the engine while clients send DELETE /task/{task_id} for its task
InitCancel ==
    /\ web = "s1"
    /\ rev \in BOOLEAN
    /\ domains \in DomainLists
    /\ max_depth \in (-1)..MaxDepth
    /\ tpc = "start"
    /\ Fresh
    /\ unit = NoUnit
    /\ faults_left = 0
    /\ celery = [t \in TaskIds |-> IF t = TheTask THEN Started(0) ELSE NoTask]

NextCancel ==
    \/ Next
    \/ \E terminate \in BOOLEAN : RevokeTask(TheTask, terminate)
    \/ WorkerTerminate

SpecCancel == InitCancel /\ [][NextCancel]_vars

\* C12: POST /crawl/ with an empty domains list or max_depth < 1 is
\* answered 400 and puts no task on the queue
C12_InvalidCrawlRejected ==
    (/\ api_response.op = "crawl"
     /\ (api_response.domains = <<>> \/ api_response.max_depth < 1))
    => /\ api_response.code = 400
       /\ Len(dispatched) = api_response.before

\* the last request was a DELETE that issued task.revoke for its task
RevokeIssued ==
    /\ Len(revoke_log) = api_response.before + 1
    /\ revoke_log[Len(revoke_log)] = [task_id |-> api_response.task_id,
                                       terminate |-> api_response.terminate]

\* C14: DELETE /task/{task_id} issues task.revoke exactly when the state it
\* read is PENDING, STARTED or RETRY, and otherwise issues nothing and
\* answers that the task cannot be revoked
C14_RevokeIffRevocable ==
    api_response.op = "revoke" =>
        /\ RevokeIssued <=> api_response.seen \in {"PENDING", "STARTED", "RETRY"}
        /\ RevokeIssued => api_response.message = "has been revoked"
        /\ ~RevokeIssued =>
              /\ Len(revoke_log) = api_response.before
              /\ api_response.message = "cannot be revoked"

\* a task in progress was refused after an earlier revoke had been issued
C14_Witness ==
    /\ api_response.op = "revoke"
    /\ api_response.seen = "PROGRESS"
    /\ api_response.message = "cannot be revoked"
    /\ Len(revoke_log) = 1
    /\ revoke_log[1].task_id = api_response.task_id

\* C13: crawl_task called with no domains or with max_depth <= 0 returns
\* an error result and has started nothing: no progress update, no fetch,
\* no storage write, no domain report
C13_InvalidInputRefused ==
    (/\ tpc = "done"
     /\ (domains = <<>> \/ max_depth <= 0))
    => /\ task_result.status = "error"
       /\ celery[TheTask].meta = ""
       /\ calls = <<>>
       /\ save_log = <<>>
       /\ all_results = <<>>

\* C15: once a cancellation has met the running pipeline of a seed, that
\* pipeline starts no further batch of fetches, and when it is over it has
\* reported a terminal status and persisted the product URLs it had
\* discovered when the cancellation came
C15_CancelHonoured ==
    cancel.kind # "none" =>
        /\ (di = cancel.di /\ tpc \in {"running", "killed"}) =>
              Len(calls) = cancel.calls
        /\ (tpc = "killed" \/ Len(all_results) >= cancel.di) =>
              /\ Len(all_results) >= cancel.di
              /\ all_results[cancel.di].status \in {"completed", "error", "cancelled"}
              /\ cancel.products \subseteq SavedFor(domains[cancel.di], TheTask)

\* C16: crawl_task runs the pipeline of every seed whatever the earlier
\* pipelines returned, and its result has status completed and carries the
\* urls_count and the parser statistics of every completed pipeline
C16_FailureIsolation ==
    /\ (tpc \in {"aggregate", "done"} /\ domains # <<>> /\ max_depth # 0) =>
          /\ Len(all_results) = Len(domains)
          /\ \A i \in DOMAIN domains : all_results[i].domain = domains[i]
    /\ (tpc = "done" /\ domains # <<>> /\ max_depth # 0) =>
          /\ task_result.status = "completed"
          /\ \A i \in DOMAIN all_results :
                all_results[i].status = "completed" =>
                   /\ all_results[i].domain \in DOMAIN task_result.urls_count
                   /\ task_result.urls_count[all_results[i].domain]
                         = all_results[i].urls_count
                   /\ task_result.total_urls >= all_results[i].urls_count
                   /\ \A p \in ParserNames :
                         /\ task_result.parser_stats[p].total
                               >= all_results[i].parser_stats[p].total
                         /\ task_result.parser_stats[p].unique
                               >= all_results[i].parser_stats[p].unique
                         /\ (\A j \in DOMAIN all_results :
                                j # i => all_results[j].status = "error")
                            => /\ task_result.parser_stats[p].total
                                     = all_results[i].parser_stats[p].total
                               /\ task_result.parser_stats[p].unique
                                     = all_results[i].parser_stats[p].unique

\* the pipeline of the first seed ended with an exception, the second seed
\* was crawled and is in the result
C16_Witness ==
    /\ tpc = "done"
    /\ Len(all_results) = 2
    /\ all_results[1].status = "error"
    /\ all_results[2].status = "completed"
    /\ all_results[2].urls_count > 0
    /\ task_result.status = "completed"
    /\ task_result.total_urls = all_results[2].urls_count

\* C17: a store fault during a periodic persist does not end the pipeline:
\* its report has status completed and storage.save is called again for
\* the seed at a later persist
C17_StoreFaultAbsorbed ==
    \A k \in DOMAIN fault_log :
        (/\ fault_log[k].at = "periodic"
         /\ Len(all_results) >= fault_log[k].di)
        => /\ all_results[fault_log[k].di].status = "completed"
           /\ \E j \in DOMAIN save_log :
                 /\ j > fault_log[k].call
                 /\ save_log[j].domain = domains[fault_log[k].di]

\* the pipeline of seed number di - 1 has just returned and every fetch of
\* its seed URL came back without content
SeedUnreachable ==
    /\ pc = "done"
    /\ di >= 2
    /\ calls # <<>>
    /\ calls[1].url = domains[di - 1]
    /\ calls[1].done
    /\ ~seed_got

\* C18: a pipeline whose seed could not be fetched reports completed with
\* urls_count 0, has fetched nothing but the seed, and has written no record
\* for (task_id, domain) to either store
C18_SeedUnreachable ==
    (/\ SeedUnreachable
     /\ \A j \in DOMAIN domains :
           j # di - 1 => SimplifyDomain(domains[j]) # SimplifyDomain(domains[di - 1]))
    => /\ all_results[di - 1].status = "completed"
       /\ all_results[di - 1].urls_count = 0
       /\ Len(calls) = 1
       /\ \A j \in DOMAIN save_log :
             ~(save_log[j].taskId = TheTask /\ save_log[j].domain = domains[di - 1])
       /\ get_temp(redis, domains[di - 1], TheTask) = {}
       /\ get_from_mongo(mongo, domains[di - 1], TheTask) = {}

\* the second seed was unreachable after the first seed had been crawled
\* and persisted
C18_Witness ==
    /\ SeedUnreachable
    /\ di = 3
    /\ max_depth >= 2
    /\ all_results[1].urls_count > 0
    /\ mongo # {}

\* C19: the calls of process_url are made depth by depth: when a call at a
\* deeper level exists, every call of a shallower level has returned and
\* been merged, and every URL of the shallower frontiers has had its call
C19_DepthDrained ==
    /\ \A i, j \in DOMAIN calls : i < j => calls[i].depth <= calls[j].depth
    /\ \A i, j \in DOMAIN calls :
          calls[i].depth < calls[j].depth => calls[i].done /\ calls[i].merged
    /\ \A i \in DOMAIN calls :
          ~calls[i].merged => calls[i].depth = current_depth /\ pc = "gather"
    /\ \A j \in DOMAIN calls : \A d \in DOMAIN frontiers :
          d - 1 < calls[j].depth =>
             \A u \in Range(frontiers[d]) :
                \E i \in DOMAIN calls :
                   /\ calls[i].url = u
                   /\ calls[i].depth <= d - 1
                   /\ calls[i].done
                   /\ calls[i].merged

\* a depth of two batches has been drained and a call of the next depth is
\* in flight
C19_Witness ==
    /\ pc = "gather"
    /\ current_depth = 2
    /\ Len(frontiers[2]) > batch_size
    /\ \E j \in DOMAIN calls : calls[j].depth = 2 /\ ~calls[j].done

\* C20 as stated: a URL that both parsers emitted on a page has first
\* finder "simple"
C20_BothCreditedSimple ==
    \A c \in DOMAIN calls : \A u \in calls[c].both :
        url_first_found_by[u] = "simple"

\* C20 as amended: a URL that both parsers emitted on a page and that had no
\* first finder before has first finder "simple", and the unique count of
\* "config" in the report of the pipeline does not count such a URL
C20_NewCreditedSimple ==
    /\ \A c \in DOMAIN calls : \A u \in calls[c].both_new :
          url_first_found_by[u] = "simple"
    /\ (pc = "done" /\ di >= 2 /\ Len(all_results) >= di - 1) =>
          (all_results[di - 1].status = "completed" =>
              all_results[di - 1].parser_stats["config"].unique
                 <= Cardinality(DOMAIN url_first_found_by
                                   \ UNION {calls[c].both_new : c \in DOMAIN calls}))

\* a page on which both parsers emitted a URL the expander had synthesized
\* before and a URL nobody had found before
C20_Witness ==
    \E c \in DOMAIN calls :
        /\ calls[c].both_new # {}
        /\ \E u \in calls[c].both \ calls[c].both_new :
              url_first_found_by[u] = "sequential"
        /\ parser_stats["config"].total > 0

----------------------------------------------------------------------------
(* Functions run on their own.  The engine stands still (tpc = "unit") and  *)
(* `unit` holds the call.                                                   *)

\* the state of the engine and of the servers while a function runs alone
Quiet ==
    /\ web = "s1"
    /\ rev = FALSE
    /\ domains = <<>>
    /\ max_depth = 0
    /\ tpc = "unit"
    /\ Fresh
    /\ faults_left = 0
    /\ celery = [t \in TaskIds |-> NoTask]

----------------------------------------------------------------------------
(* The fetcher (worker/src/utils/fetcher.py) *)

MAX_RETRIES == 2

\* fetch_page(url) entered; `requests` and `selenium` list the outcomes of
\* the attempts made on each path
NewFetch(url) ==
    [op |-> "fetch_page", url |-> url, pc |-> "requests", retries |-> 0,
     requests |-> <<>>, selenium |-> <<>>, result |-> "pending"]

\* one turn of the loop of fetch_with_requests; when the loop ends without
\* a body fetch_page goes on to fetch_with_selenium
FetchWithRequests(o) ==
    /\ tpc = "unit"
    /\ unit.op = "fetch_page"
    /\ unit.pc = "requests"
    /\ unit.retries < MAX_RETRIES
    /\ LET tried == [unit EXCEPT !.requests = Append(@, o)]
       IN unit' =
            CASE o = "ok" -> [tried EXCEPT !.pc = "returned", !.result = "html"]
              [] o = "RequestException" ->
                   IF unit.retries + 1 < MAX_RETRIES
                   THEN [tried EXCEPT !.retries = @ + 1]
                   ELSE [tried EXCEPT !.pc = "selenium", !.retries = 0]
              [] OTHER -> [tried EXCEPT !.pc = "raised", !.result = "exception"]
    /\ UNCHANGED <<web, rev, progVars, taskVars, pipeVars, storeVars, histVars,
                   response, auxVars>>

\* one turn of the loop of fetch_with_selenium; every exception of the turn
\* is caught, and a CAPTCHA page counts as a retry (twice when clearing the
\* cookies raises, which the except clauses count again)
FetchWithSelenium(o) ==
    /\ tpc = "unit"
    /\ unit.op = "fetch_page"
    /\ unit.pc = "selenium"
    /\ unit.retries < MAX_RETRIES
    /\ o = "captcha_cookies_raise" => unit.retries + 1 >= 2
    /\ LET tried == [unit EXCEPT !.selenium = Append(@, o)]
           retries == unit.retries + (IF o = "captcha_cookies_raise" THEN 2 ELSE 1)
       IN unit' =
            IF o = "ok" THEN [tried EXCEPT !.pc = "returned", !.result = "html"]
            ELSE IF retries < MAX_RETRIES THEN [tried EXCEPT !.retries = retries]
            ELSE [tried EXCEPT !.retries = retries, !.pc = "returned", !.result = "None"]
    /\ UNCHANGED <<web, rev, progVars, taskVars, pipeVars, storeVars, histVars,
                   response, auxVars>>

InitFetch ==
    /\ Quiet
    /\ unit \in {NewFetch(u) : u \in Seeds \cup {PoolA, PoolB}}

\* an attempt of fetch_with_requests ends with the body, with an exception
\* of class requests.RequestException (connection, timeout, HTTP status) or
\* with an exception of another class; an attempt of fetch_with_selenium
\* ends with the page source, with a page that has a CAPTCHA marker (the
\* cookies cleared, or delete_all_cookies raising) or in one of the three
\* except clauses
NextFetch ==
    \/ \E o \in {"ok", "RequestException", "Exception"} : FetchWithRequests(o)
    \/ \E o \in {"ok", "captcha", "captcha_cookies_raise", "TimeoutException",
                  "WebDriverException", "Exception"} : FetchWithSelenium(o)

SpecFetch == InitFetch /\ [][NextFetch]_vars

\* C21: fetch_page never raises; it makes at most MAX_RETRIES attempts on
\* each path, and when it has returned it has returned the HTML or, with
\* every attempt of both paths failed, None
C21_FetcherNeverRaises ==
    unit.op = "fetch_page" =>
        /\ unit.pc # "raised"
        /\ Len(unit.requests) <= MAX_RETRIES
        /\ Len(unit.selenium) <= MAX_RETRIES
        /\ unit.pc = "returned" =>
              \/ unit.result = "html"
              \/ /\ unit.result = "None"
                 /\ \A i \in DOMAIN unit.requests : unit.requests[i] # "ok"
                 /\ \A i \in DOMAIN unit.selenium : unit.selenium[i] # "ok"

----------------------------------------------------------------------------
(* normalize_url (worker/src/tasks.py).  The argument is given by what      *)
(* urlsplit makes of it: scheme, netloc, path, query, fragment.  The path   *)
(* is the sequence of its segments, each preceded by "/" ("/x/" is          *)
(* <<"x", "">>), a query parameter is its name, cut into pieces so that a   *)
(* substring test can be computed, and whether it has an "=".  The result,  *)
(* a string, is given by what urlsplit makes of it in turn.                 *)

excluded_params ==
    {<<"utm_", "source">>, <<"utm_", "medium">>, <<"utm_", "campaign">>, <<"ref">>,
     <<"session">>, <<"tracking">>, <<"click">>, <<"affiliate">>, <<"source">>}

\* str.lower on the netloc and on the pieces of a parameter name
Lower(s) ==
    CASE s = "Shop.Test" -> "shop.test"
      [] s = "Ref" -> "ref"
      [] OTHER -> LowerHost(s)

\* `excluded in param_name`
Contains(name, excluded) ==
    \E i \in 1..(Len(name) - Len(excluded) + 1) :
        SubSeq(name, i, i + Len(excluded) - 1) = excluded

\* urlsplit(urlunsplit(parts)).  urlunsplit writes "//" netloc only when
\* the netloc is not empty or the path does not begin with "//"; the
\* urllib.parse of CPython before 3.12.4 therefore writes a path beginning
\* with "//" and no netloc so that its first segment is read back as the
\* netloc, later versions write "//" in front of it
Reparse(parts, lib) ==
    IF lib = "old" /\ parts.netloc = "" /\ Len(parts.path) >= 2 /\ parts.path[1] = ""
    THEN [parts EXCEPT !.netloc = parts.path[2],
                       !.path = SubSeq(parts.path, 3, Len(parts.path))]
    ELSE parts

\* normalize_url(url); urlsplit raises ValueError on a netloc with an
\* unmatched bracket, and the except clause returns the argument
normalize_url(url, lib) ==
    IF url.netloc = "[::1" THEN url
    ELSE LET keep(param) ==
                 /\ param.eq
                 /\ \A excluded \in excluded_params :
                       ~Contains([i \in DOMAIN param.name |-> Lower(param.name[i])],
                                 excluded)
             last == IF \E i \in DOMAIN url.path : url.path[i] # ""
                     THEN CHOOSE i \in DOMAIN url.path :
                             /\ url.path[i] # ""
                             /\ \A j \in DOMAIN url.path : j > i => url.path[j] = ""
                     ELSE 0
         IN Reparse([scheme |-> url.scheme,
                     netloc |-> Lower(url.netloc),
                     path |-> SubSeq(url.path, 1, last),
                     query |-> SelectSeq(url.query, keep),
                     fragment |-> ""], lib)

\* the parameters tried: utm_source=, utm_content=, ref=, Ref=, preference=,
\* id= and a parameter written without "="
Params ==
    {[name |-> n, eq |-> TRUE] :
        n \in {<<"utm_", "source">>, <<"utm_", "content">>, <<"ref">>, <<"Ref">>,
               <<"p", "ref", "erence">>, <<"id">>}}
      \cup {[name |-> <<"flag">>, eq |-> FALSE]}

\* the sequences over S of length n
RECURSIVE Tuples(_, _)
Tuples(S, n) ==
    IF n = 0 THEN {<<>>}
    ELSE {Append(q, x) : q \in Tuples(S, n - 1), x \in S}

InitNorm ==
    /\ Quiet
    /\ \E scheme \in {"http", "https"} :
       \E netloc \in {"Shop.Test", "shop.test", "", "[::1"} :
       \E path \in {<<>>, <<"">>, <<"x">>, <<"x", "">>, <<"x", "", "">>,
                    <<"", "Shop.Test", "x">>} :
       \E query \in UNION {Tuples(Params, n) : n \in 0..MaxParams} :
       \E fragment \in {"", "top"} :
       \E lib \in {"old", "new"} :
          unit = [op |-> "normalize_url", lib |-> lib, calls |-> 0,
                  url |-> [scheme |-> scheme, netloc |-> netloc, path |-> path,
                           query |-> query, fragment |-> fragment],
                  once |-> "pending", twice |-> "pending"]

\* normalize_url applied to the argument, then to its own result
Normalize ==
    /\ tpc = "unit"
    /\ unit.op = "normalize_url"
    /\ unit.calls < 2
    /\ unit' = IF unit.calls = 0
               THEN [unit EXCEPT !.calls = 1, !.once = normalize_url(unit.url, unit.lib)]
               ELSE [unit EXCEPT !.calls = 2, !.twice = normalize_url(unit.once, unit.lib)]
    /\ UNCHANGED <<web, rev, progVars, taskVars, pipeVars, storeVars, histVars,
                   response, auxVars>>

SpecNorm == InitNorm /\ [][Normalize]_vars

\* C22: normalize_url applied to its own result returns that result
C22_NormalizeIdempotent ==
    (unit.op = "normalize_url" /\ unit.calls = 2) => unit.twice = unit.once

\* the parameters the specification counts as tracking: utm_ with any
\* suffix and the six names
TrackingName(name) ==
    LET lower == [i \in DOMAIN name |-> Lower(name[i])]
    IN \/ lower[1] = "utm_"
       \/ lower \in {<<"ref">>, <<"session">>, <<"tracking">>, <<"click">>,
                     <<"affiliate">>, <<"source">>}

\* C23: the result of normalize_url has no trailing "/", no fragment, a
\* lower-cased host and the scheme of the argument, and its query is the
\* query of the argument without the tracking parameters
C23_NormalizedShape ==
    (unit.op = "normalize_url" /\ unit.calls >= 1) =>
        /\ unit.once.path # <<>> => unit.once.path[Len(unit.once.path)] # ""
        /\ unit.once.fragment = ""
        /\ unit.once.netloc = Lower(unit.once.netloc)
        /\ unit.once.scheme = unit.url.scheme
        /\ unit.once.query =
              SelectSeq(unit.url.query, LAMBDA param : ~TrackingName(param.name))

----------------------------------------------------------------------------
(* progress reporting of the engine *)

\* C24: every meta the pipeline hands to the progress callback (at the
\* start of a depth, after each batch, at the end of a depth) has the
\* fields status, domain, depth, depth_progress and urls_discovered
C24_ProgressFields ==
    \A i \in DOMAIN progress_log :
        {"status", "domain", "depth", "depth_progress", "urls_discovered"}
            \subseteq DOMAIN progress_log[i]

\* C26: once process_domain has returned an error report for a domain, the
\* domain's entry of domain_statuses has status error
C26_ErrorStatus ==
    \A i \in DOMAIN all_results :
        all_results[i].status = "error" =>
            domain_statuses[all_results[i].domain].status = "error"

----------------------------------------------------------------------------
(* crawl_task given a list that names a seed more than once *)

InitRepeat ==
    /\ web = "s1"
    /\ rev \in BOOLEAN
    /\ domains \in {<<SeedA, SeedA>>, <<SeedA, SeedB, SeedA>>}
    /\ max_depth \in 1..MaxDepth
    /\ tpc = "start"
    /\ Fresh
    /\ unit = NoUnit
    /\ faults_left = 0
    /\ celery = [t \in TaskIds |-> IF t = TheTask THEN Started(0) ELSE NoTask]

SpecRepeat == InitRepeat /\ [][Next]_vars

\* C25: the aggregate's total_urls is the sum of urls_count over the
\* completed domain reports, each parser's total and unique are the sums
\* over those reports, urls_by_parser sums their first-find counts, and
\* total_urls is the sum of the parsers' unique counts
C25_AggregateSums ==
    (tpc = "done" /\ task_result.status = "completed") =>
        LET rs == Completed(all_results)
        IN /\ task_result.total_urls = SumSeq([i \in DOMAIN rs |-> rs[i].urls_count])
           /\ \A p \in ParserNames :
                 /\ task_result.parser_stats[p].total =
                       SumSeq([i \in DOMAIN rs |-> rs[i].parser_stats[p].total])
                 /\ task_result.parser_stats[p].unique =
                       SumSeq([i \in DOMAIN rs |-> rs[i].parser_stats[p].unique])
           /\ \A p \in DOMAIN task_result.urls_by_parser :
                 task_result.urls_by_parser[p] =
                    SumSeq([i \in DOMAIN rs |->
                              IF p \in DOMAIN rs[i].parser_url_counts
                              THEN rs[i].parser_url_counts[p] ELSE 0])
           /\ task_result.total_urls =
                 SumSet([p \in ParserNames |-> task_result.parser_stats[p].unique],
                        ParserNames)

----------------------------------------------------------------------------
(* the frontier of the next depth *)

\* C27: after every depth transition the URLs of urls_to_visit that match
\* a category pattern precede those that do not, and each of the two
\* groups is in the order of discovery (the order of next_depth_urls)
C27_FrontierRanked ==
    (tpc = "running" /\ pc = "depth" /\ current_depth > 0) =>
        LET matching == SelectSeq(urls_to_visit, category_match)
            others == SelectSeq(urls_to_visit, LAMBDA u : ~category_match(u))
        IN /\ urls_to_visit = matching \o others
           /\ matching = SelectSeq(next_depth_urls, LAMBDA u : u \in Range(matching))
           /\ others = SelectSeq(next_depth_urls, LAMBDA u : u \in Range(others))

\* the engine, or one of its parts run on its own.  The ranking and the cap
\* are applied to a next-depth list about as long as the cap: distinct URLs,
\* one in every m matching a category pattern.  The sequential expander is
\* given the subsets of six product URLs, which have 32 new neighbours, and
\* the subsets of /product/2, /product/100../102, /about, /cat/12/item/34
InitParts ==
    \/ Init
    \/ /\ Quiet
       /\ \E n \in (frontier_limit - MaxOver)..(frontier_limit + MaxOver) :
          \E m \in 2..(MaxOver + 1) :
          \E j \in 0..(m - 1) :
             unit = [op |-> "rank", done |-> FALSE, urls_to_visit |-> <<>>,
                     next_depth_urls |->
                        [i \in 1..n |-> IF i % m = j THEN Rel("product", i)
                                        ELSE Rel("list", i)]]
    \/ /\ Quiet
       /\ \E product_urls \in
               SUBSET {Rel("product", n) : n \in {10, 20, 30, 40, 50, 53}} :
             unit = [op |-> "generate_sequential_urls", done |-> FALSE,
                     product_urls |-> product_urls, new_urls |-> {}]
    \/ /\ Quiet
       /\ \E product_urls \in
               SUBSET ({Rel("product", n) : n \in {2, 100, 101, 102}}
                          \cup {Rel("about", 0),
                                [host |-> "", sec |-> "cat", num |-> 12, slash |-> FALSE,
                                 query |-> <<>>, frag |-> "", item |-> 34]}) :
             unit = [op |-> "generate_sequential_urls", done |-> FALSE,
                     product_urls |-> product_urls, new_urls |-> {}]

Rank ==
    /\ tpc = "unit"
    /\ unit.op = "rank"
    /\ ~unit.done
    /\ unit' = [unit EXCEPT !.done = TRUE,
                            !.urls_to_visit = RankFrontier(unit.next_depth_urls)]
    /\ UNCHANGED <<web, rev, progVars, taskVars, pipeVars, storeVars, histVars,
                   response, auxVars>>

Expand ==
    /\ tpc = "unit"
    /\ unit.op = "generate_sequential_urls"
    /\ ~unit.done
    /\ \E new_urls \in generate_sequential_urls(unit.product_urls) :
          unit' = [unit EXCEPT !.done = TRUE, !.new_urls = new_urls]
    /\ UNCHANGED <<web, rev, progVars, taskVars, pipeVars, storeVars, histVars,
                   response, auxVars>>

NextParts == Next \/ Rank \/ Expand

SpecParts == InitParts /\ [][NextParts]_vars

FrontierCapped ==
    /\ Len(urls_to_visit) <= frontier_limit
    /\ NoDup(urls_to_visit)
    /\ (unit.op = "rank" /\ unit.done) =>
          /\ Len(unit.urls_to_visit) <= frontier_limit
          /\ NoDup(unit.urls_to_visit)

AppendedNew ==
    (tpc = "running" /\ pc = "gather" /\ pc' \in {"batch", "depth_end"}) =>
        /\ Len(next_depth_urls') >= Len(next_depth_urls)
        /\ SubSeq(next_depth_urls', 1, Len(next_depth_urls)) = next_depth_urls
        /\ \A i \in (Len(next_depth_urls) + 1)..Len(next_depth_urls') :
              /\ next_depth_urls'[i] \notin visited_urls
              /\ \A j \in 1..(i - 1) : next_depth_urls'[j] # next_depth_urls'[i]

\* C28: at every depth urls_to_visit holds at most 500 URLs and no URL
\* twice, and every URL the merge of a batch appends to next_depth_urls is
\* neither in visited_urls nor in next_depth_urls before it
C28_Frontier == []FrontierCapped /\ [][AppendedNew]_vars

\* a batch has been merged: a URL it found was left out because it had been
\* visited, another because it had been queued, and others were appended
C28_Witness ==
    /\ tpc = "running"
    /\ pc \in {"batch", "depth_end"}
    /\ next_depth_urls # <<>>
    /\ \E k \in DOMAIN results : \E u \in Range(results[k].next_urls) :
          u \in visited_urls /\ u \notin Range(next_depth_urls)
    /\ \E k, l \in DOMAIN results :
          k # l /\ Range(results[k].next_urls) \cap Range(results[l].next_urls)
                      \cap Range(next_depth_urls) # {}

----------------------------------------------------------------------------
(* the parsers run on a page *)

\* C29: on a fetched page the parsers are run in the order of
\* PARSERS_TO_USE; a parser is run exactly when fewer than 5 candidates
\* were gathered after each of the parsers before it
C29_ShortCircuit ==
    \A c \in DOMAIN calls :
        (calls[c].done /\ calls[c].fetched) =>
            LET ran == calls[c].ran
            IN /\ Len(ran) <= Len(PARSERS_TO_USE)
               /\ \A j \in DOMAIN PARSERS_TO_USE :
                     /\ j \in DOMAIN ran => ran[j].parser = PARSERS_TO_USE[j]
                     /\ j \in DOMAIN ran <=>
                           \A i \in 1..(j - 1) :
                              i \in DOMAIN ran /\ ran[i].gathered < short_circuit

\* one page gave five candidates to the first parser and the second was
\* not run on it; another gave fewer and both were run
C29_Witness ==
    /\ \E c \in DOMAIN calls :
          /\ calls[c].done /\ calls[c].fetched
          /\ Len(calls[c].ran) = 1
          /\ calls[c].ran[1].gathered >= short_circuit
    /\ \E c \in DOMAIN calls :
          /\ calls[c].done /\ calls[c].fetched
          /\ Len(calls[c].ran) = Len(PARSERS_TO_USE)
          /\ calls[c].ran[1].gathered > 0

----------------------------------------------------------------------------
(* the sequential expander *)

\* C30: generate_sequential_urls returns nothing for fewer than 3 URLs and
\* otherwise at most 30 URLs, none of them among those given; the merge
\* loop calls it only for a page that yielded at least 3 candidates
C30_Expander ==
    /\ (unit.op = "generate_sequential_urls" /\ unit.done) =>
          /\ Cardinality(unit.product_urls) < expand_min => unit.new_urls = {}
          /\ Cardinality(unit.new_urls) <= max_urls
          /\ unit.new_urls \cap unit.product_urls = {}
    /\ \A c \in DOMAIN calls :
          calls[c].expanded =>
              /\ calls[c].ran # <<>>
              /\ calls[c].ran[Len(calls[c].ran)].gathered >= expand_min

\* the expander was given six URLs with more than 30 new neighbours, two of
\* them neighbours of each other, and returned 30
C30_Witness ==
    /\ unit.op = "generate_sequential_urls"
    /\ unit.done
    /\ Cardinality(unit.product_urls) >= expand_min
    /\ Cardinality(FreshFromSample(unit.product_urls, unit.product_urls)) > max_urls
    /\ Cardinality(unit.new_urls) = max_urls
    /\ \E u \in unit.product_urls : Siblings(u) \cap unit.product_urls # {}

\* C31: every URL the expander returns is a given URL whose number N,
\* captured by the numeric shape, is replaced by N+i or N-i with i in 1..3,
\* the replacement is never below 1, and no returned URL is among those given
C31_SiblingsOnly ==
    (unit.op = "generate_sequential_urls" /\ unit.done) =>
        /\ unit.new_urls \cap unit.product_urls = {}
        /\ \A v \in unit.new_urls :
              \E u \in unit.product_urls : \E i \in 1..3 :
                 /\ u.num > 0
                 /\ \/ v = [u EXCEPT !.num = u.num + i]
                    \/ u.num - i >= 1 /\ v = [u EXCEPT !.num = u.num - i]

----------------------------------------------------------------------------
(* the maps shared by the coroutines of a batch *)

\* what the parser named p, or the expander, returned over the calls so far
Emitted(p) ==
    SumSeq([c \in DOMAIN calls |->
              IF p = "sequential"
              THEN Cardinality(calls[c].synthesized)
              ELSE SumSeq([j \in DOMAIN calls[c].ran |->
                             IF calls[c].ran[j].parser = p
                             THEN Cardinality(calls[c].ran[j].urls) ELSE 0])])

TotalsKept == \A p \in ParserNames : parser_stats[p].total = Emitted(p)

FirstWriteWins ==
    tpc = "running" =>
        \A u \in DOMAIN url_first_found_by :
            /\ u \in DOMAIN url_first_found_by'
            /\ url_first_found_by'[u] = url_first_found_by[u]

\* C32: in every order in which the process_url coroutines of a batch run,
\* followed by the merge loop with the sequential expansion, an entry of
\* url_first_found_by keeps the value it was first given, and each
\* parser_stats[p].total is the sum of the sizes of what p returned
C32_FirstWriteWins == []TotalsKept /\ [][FirstWriteWins]_vars

\* a coroutine has returned before one placed earlier in its batch; a
\* parser returned on its page a URL credited earlier, and the expander has
\* met a URL credited to a parser
C32_Witness ==
    /\ \E c, e \in DOMAIN calls :
          /\ e < c /\ calls[e].depth = calls[c].depth
          /\ c - e < batch_size
          /\ ~calls[e].done
          /\ calls[c].done /\ calls[c].fetched
          /\ \E j \in DOMAIN calls[c].ran : \E b \in DOMAIN calls :
                /\ calls[b].depth < calls[c].depth
                /\ \E i \in DOMAIN calls[b].ran :
                      calls[b].ran[i].urls \cap calls[c].ran[j].urls # {}
    /\ \E c \in DOMAIN calls : calls[c].synthesized # {}

----------------------------------------------------------------------------
(* failures of single URLs *)

\* C33: a URL whose fetch came back empty or whose process_url call raised
\* is the only one skipped: what a parser returned on any fetched page of
\* a merged batch is among the domain's product URLs, and a pipeline that
\* has ended has handed every URL of every frontier to process_url, has
\* run the depths up to max_depth or to an empty frontier, and has
\* reported completed
C33_FailureSkipsOneUrl ==
    /\ \A c \in DOMAIN calls :
          (calls[c].merged /\ calls[c].fetched) =>
              \A j \in DOMAIN calls[c].ran :
                 calls[c].ran[j].urls \subseteq domain_product_urls
    /\ (pc = "done" /\ faults_left = 0 /\ fault_log = <<>>) =>
          /\ \A d \in DOMAIN frontiers : \A u \in Range(frontiers[d]) :
                \E c \in DOMAIN calls :
                   calls[c].url = u /\ calls[c].done /\ calls[c].merged
          /\ current_depth >= max_depth \/ urls_to_visit = <<>>
          /\ all_results[Len(all_results)].status = "completed"

\* a pipeline has ended after a batch in which one call raised, one fetch
\* came back empty and a fetched page gave product URLs, and after a later
\* depth
C33_Witness ==
    /\ pc = "done"
    /\ all_results # <<>>
    /\ \E a, b, c, e \in DOMAIN calls :
          /\ calls[a].raised
          /\ ~calls[b].fetched /\ ~calls[b].raised
          /\ calls[c].fetched /\ calls[c].ran[1].urls # {}
          /\ calls[a].depth = calls[c].depth /\ calls[b].depth = calls[c].depth
          /\ calls[e].depth > calls[c].depth /\ calls[e].fetched

----------------------------------------------------------------------------
(* the persists of a pipeline *)

\* the indices in save_log of the Storage.save calls made for a seed
SavesOf(domain) == {i \in DOMAIN save_log : save_log[i].domain = domain}

\* C35: the Storage.save calls of a pipeline carry growing sets; when the
\* pipeline has returned a completed report with urls_count > 0 the last
\* of them carried as many URLs as the report counts, and all the product
\* URLs the pipeline discovered
C35_FinalPersist ==
    /\ \A i, j \in DOMAIN save_log :
          (i < j /\ save_log[i].domain = save_log[j].domain) =>
              Range(save_log[i].urls) \subseteq Range(save_log[j].urls)
    /\ \A r \in DOMAIN all_results :
          (all_results[r].status = "completed" /\ all_results[r].urls_count > 0) =>
              /\ SavesOf(all_results[r].domain) # {}
              /\ \A i \in SavesOf(all_results[r].domain) :
                    (\A j \in SavesOf(all_results[r].domain) : j <= i) =>
                        /\ Cardinality(Range(save_log[i].urls)) = all_results[r].urls_count
                        /\ (r = Len(all_results) /\ pc = "done") =>
                              Range(save_log[i].urls) = domain_product_urls

\* a pipeline has returned a completed report after a persist at the end
\* of a depth and a final persist that carried more
C35_Witness ==
    /\ pc = "done"
    /\ all_results # <<>>
    /\ all_results[Len(all_results)].status = "completed"
    /\ \E i, j \in SavesOf(all_results[Len(all_results)].domain) :
          /\ i < j
          /\ Range(save_log[i].urls) # Range(save_log[j].urls)
          /\ Range(save_log[j].urls) = domain_product_urls

\* the task has reported progress: it is in PROGRESS, or its run raised
\* after a progress update and it waits for, or runs, the retry
HasReported(t) ==
    celery[t].state \in {"PROGRESS", "RETRY"} \/ celery[t].retries > 0

\* this step has issued task.revoke for t
RevokeAppended(t) ==
    /\ Len(revoke_log') = Len(revoke_log) + 1
    /\ revoke_log'[Len(revoke_log')].task_id = t

\* C36 (as stated): once a task has reported progress no DELETE issues a
\* revoke for it, and a task in PROGRESS stays there until SUCCESS or
\* FAILURE
C36_NoRevokeOnceReported ==
    [][\A t \in TaskIds :
          /\ HasReported(t) => ~RevokeAppended(t)
          /\ celery[t].state = "PROGRESS" =>
                celery'[t].state \in {"PROGRESS", "SUCCESS", "FAILURE"}]_vars

\* C36 (amended): while a task is in PROGRESS no DELETE issues a revoke for
\* it; it leaves PROGRESS only to SUCCESS, to RETRY or FAILURE when the run
\* raised (RETRY while a retry is left), or to REVOKED by a revoke with
\* terminate that was issued before
C36_NoRevokeInProgress ==
    [][\A t \in TaskIds :
          celery[t].state = "PROGRESS" =>
              /\ ~RevokeAppended(t)
              /\ celery'[t].state \in {"PROGRESS", "SUCCESS", "FAILURE", "RETRY", "REVOKED"}
              /\ celery'[t].state = "REVOKED" => Terminated(t)
              /\ celery'[t].state = "RETRY" => celery[t].retries = 0
              /\ celery'[t].state = "FAILURE" => celery[t].retries = 1]_vars

\* the retried run of a task reports progress, a DELETE for it is refused,
\* and the only revoke issued for it came before, while it waited in RETRY
\* or had not reported yet
C36_Witness ==
    /\ api_response.op = "revoke"
    /\ api_response.seen = "PROGRESS"
    /\ api_response.message = "cannot be revoked"
    /\ celery[api_response.task_id].state = "PROGRESS"
    /\ celery[api_response.task_id].retries = 1
    /\ Len(revoke_log) = 1
    /\ revoke_log[1] = [task_id |-> api_response.task_id, terminate |-> FALSE]

\* the URLs the pipeline of `seed` handed to Storage.save under task t
SavedBy(seed, t) ==
    UNION {Range(save_log[k].urls) :
             k \in {j \in DOMAIN save_log :
                      save_log[j].domain = seed /\ save_log[j].taskId = t}}

\* C37: for every seed of a task whose pipeline has saved, the fast-store
\* set and the durable record read for the seed hold only URLs that the
\* seed's own pipeline saved, also for two seeds on different hosts of one
\* registrable domain
C37_SeedIsolation ==
    \A seed \in {save_log[k].domain : k \in DOMAIN save_log} :
        /\ get_temp(redis, seed, TheTask) \subseteq SavedBy(seed, TheTask)
        /\ DurableUrls(mongo, seed, TheTask) \subseteq SavedBy(seed, TheTask)

\* C38: when the batches of a depth are done, the update of the last batch
\* reports depth_progress processed_count/total_count with both numbers
\* equal: every URL of the frontier announced at the start of the depth
\* has been counted as processed
C38_DepthAccounted ==
    (tpc = "running" /\ pc = "depth_end") =>
        LET last == progress_log[Len(progress_log)]
        IN /\ "batch_progress" \in DOMAIN last
           /\ last.depth = current_depth
           /\ last.depth_progress[2] = Len(urls_to_visit)
           /\ last.depth_progress[1] = last.depth_progress[2]

====
